---- MODULE Spec2Model ----
(***************************************************************************)
(* GitHub webhook -> Telegram relay (troublescope/github2gram).            *)
(*                                                                         *)
(* JavaScript values are modelled as follows.                              *)
(*   - a string whose characters matter (a ref, a repository name, an      *)
(*     environment key, a body) is a sequence of one-character strings;    *)
(*   - a string that is only compared as a whole (an event type, an        *)
(*     action, a chat id, a secret) is a TLA+ string, "" being the empty   *)
(*     string;                                                             *)
(*   - an object is a record whose DOMAIN is the set of properties that    *)
(*     are present: a missing (undefined or null) property is a missing    *)
(*     field;                                                              *)
(*   - the result of a call that may throw is a record with a kind field,  *)
(*     kind "throws" standing for the exception.                           *)
(***************************************************************************)
EXTENDS Integers, Sequences, FiniteSets, TLC

VARIABLES
  config,         \* the AppConfig built once by configuration() at startup
  call,           \* unit harness: the function applied and its arguments
  ret,            \* unit harness: what the call returned
  pc,             \* controller: "idle", "awaiting" (outbound call in flight), "done"
  req,            \* controller: the delivery being handled
  trace,          \* controller: the service methods invoked for this delivery, in order
  processedData,  \* controller: what processWebhookEvent returned
  outbound,       \* controller: the calls made to the messaging API for this delivery
  response,       \* controller: the HTTP response of this delivery
  inflight        \* concurrent controller: the state of each delivery in flight

vars == <<config, call, ret, pc, req, trace, processedData, outbound, response, inflight>>

(***************************************************************************)
(* Strings                                                                 *)
(***************************************************************************)

Has(o, f) == f \in DOMAIN o

\* the object o without its property f
Without(o, f) == [g \in (DOMAIN o) \ {f} |-> o[g]]

\* the object o with its property f set to v
With(o, f, v) == [g \in (DOMAIN o) \cup {f} |-> IF g = f THEN v ELSE o[g]]

\* String.prototype.startsWith
StartsWith(s, p) ==
  /\ Len(s) >= Len(p)
  /\ SubSeq(s, 1, Len(p)) = p

\* String.prototype.endsWith
EndsWith(s, p) ==
  /\ Len(s) >= Len(p)
  /\ SubSeq(s, Len(s) - Len(p) + 1, Len(s)) = p

\* The positions at which p occurs in s (1-based).
Occurrences(s, p) ==
  {i \in 1..(Len(s) - Len(p) + 1) : SubSeq(s, i, i + Len(p) - 1) = p}

Min(S) == CHOOSE m \in S : \A n \in S : m <= n

\* a replace that replaces the last occurrence of p
ReplaceLast(s, p, r) ==
  IF Occurrences(s, p) = {}
    THEN s
    ELSE LET i == CHOOSE m \in Occurrences(s, p) : \A n \in Occurrences(s, p) : n <= m
         IN SubSeq(s, 1, i - 1) \o r \o SubSeq(s, i + Len(p), Len(s))

\* String.prototype.replace(p, r) with a string pattern: only the first
\* occurrence of p is replaced.
Replace(s, p, r) ==
  IF Occurrences(s, p) = {}
    THEN s
    ELSE LET i == Min(Occurrences(s, p))
         IN SubSeq(s, 1, i - 1) \o r \o SubSeq(s, i + Len(p), Len(s))

\* String.prototype.substring(0, n)
Substring0(s, n) == SubSeq(s, 1, IF n < Len(s) THEN n ELSE Len(s))

(***************************************************************************)
(* Configuration: configuration() reads process.env once at startup.       *)
(* process.env is a record: named holds GITHUB_WEBHOOK_SECRET,             *)
(* TELEGRAM_BOT_TOKEN and TELEGRAM_CHAT_ID when they are set, others is    *)
(* the remaining variables as <<key, value>> pairs in Object.keys order.   *)
(***************************************************************************)

RepoPrefix == <<"R", "E", "P", "O", "_">>
ChatIdSuffix == <<"_", "C", "H", "A", "T", "_", "I", "D">>

\* process.env.X || ''
EnvOr(named, name) == IF Has(named, name) THEN named[name] ELSE ""

\* The repositories table after the forEach over the first n keys.
RECURSIVE ParseRepositories(_, _)
ParseRepositories(others, n) ==
  IF n = 0
    THEN <<>>
    ELSE LET key == others[n][1]
             before == ParseRepositories(others, n - 1)
         IN IF StartsWith(key, RepoPrefix) /\ EndsWith(key, ChatIdSuffix)
              THEN LET repoName == Replace(Replace(key, RepoPrefix, <<>>), ChatIdSuffix, <<>>)
                   IN [k \in (DOMAIN before) \cup {repoName} |->
                         IF k = repoName THEN others[n][2] ELSE before[k]]
              ELSE before

configuration(env) ==
  [ github |-> [webhookSecret |-> EnvOr(env.named, "GITHUB_WEBHOOK_SECRET")],
    telegram |-> [ botToken |-> EnvOr(env.named, "TELEGRAM_BOT_TOKEN"),
                   defaultChatId |-> EnvOr(env.named, "TELEGRAM_CHAT_ID") ],
    repositories |-> ParseRepositories(env.others, Len(env.others)) ]

(***************************************************************************)
(* The environments the model starts from.                                 *)
(***************************************************************************)

RepoOR == <<"o", "/", "r">>            \* a repository full name, owner/repo
RepoCase == <<"O", "/", "r">>          \* the same name in another case
RepoSlash == <<"o", "/", "r", "/">>    \* the same name with a trailing slash
RepoOwner == <<"o">>                   \* a prefix of it, with no "/"
RepoUnder == <<"o", "_", "r">>         \* owner and repo joined by "_"

RepoNames == {RepoOR, RepoCase, RepoSlash, RepoOwner, RepoUnder}

EnvKey(mid) == RepoPrefix \o mid \o ChatIdSuffix

NamedEnvs ==
  { [GITHUB_WEBHOOK_SECRET |-> "s1", TELEGRAM_BOT_TOKEN |-> "tok", TELEGRAM_CHAT_ID |-> "chatD"],
    [TELEGRAM_BOT_TOKEN |-> "tok", TELEGRAM_CHAT_ID |-> "chatD"],
    [GITHUB_WEBHOOK_SECRET |-> "", TELEGRAM_BOT_TOKEN |-> "tok", TELEGRAM_CHAT_ID |-> "chatD"],
    [GITHUB_WEBHOOK_SECRET |-> "s1", TELEGRAM_CHAT_ID |-> "chatD"],
    [GITHUB_WEBHOOK_SECRET |-> "s1", TELEGRAM_BOT_TOKEN |-> "tok"] }

OtherEnvs ==
  { <<>>,
    << <<EnvKey(RepoUnder), "chatA">> >>,
    << <<EnvKey(RepoOR), "chatA">> >>,
    << <<EnvKey(RepoOR), "">> >>,
    << <<EnvKey(RepoCase), "chatB">>, <<EnvKey(RepoOwner), "chatA">> >>,
    << <<EnvKey(<<"u", "n", "k", "n", "o", "w", "n">>), "chatU">> >>,
    << <<<<"P", "O", "R", "T">>, "3000">> >> }

Envs == {[named |-> n, others |-> o] : n \in NamedEnvs, o \in OtherEnvs}

Configs == {configuration(env) : env \in Envs}

(***************************************************************************)
(* Signature Verifier                                                      *)
(*                                                                         *)
(* A request body is the record [json, layout]: the JSON value it holds    *)
(* and how it is written ("compact" as JSON.stringify writes it, "spaced"  *)
(* with whitespace between the tokens).  HMAC-SHA256 is modelled as a      *)
(* perfect keyed hash: the digest of a key and a message is the record of  *)
(* both, so that two digests are equal exactly when key and message are.   *)
(* A signature header is the record [scheme, hex, tail]: the text before   *)
(* the hex digits, the digits (absent when there are none) and trailing    *)
(* characters (absent when there are none).                                *)
(***************************************************************************)

\* express's JSON body parser
JsonParse(body) == body.json

\* JSON.stringify(value): always the compact form
JsonStringify(value) == [json |-> value, layout |-> "compact"]

\* crypto.createHmac('sha256', secret).update(payload).digest('hex')
HmacSha256Hex(secret, payload) == [alg |-> "sha256", key |-> secret, msg |-> payload]

\* The hex digits "deadbeef", no digest of anything.
DeadBeef == [alg |-> "literal", text |-> "deadbeef"]

Sha256HexLen == 64

HexLength(hex) == IF hex.alg = "sha256" THEN Sha256HexLen ELSE Len(<<"d", "e", "a", "d", "b", "e", "e", "f">>)

SchemeLength(scheme) ==
  CASE scheme = "sha256=" -> Len(<<"s", "h", "a", "2", "5", "6", "=">>)
    [] scheme = "sha1=" -> Len(<<"s", "h", "a", "1", "=">>)
    [] scheme = "" -> 0

\* Buffer.from(signature).length
ByteLength(sig) ==
  SchemeLength(sig.scheme)
    + (IF Has(sig, "hex") THEN HexLength(sig.hex) ELSE 0)
    + (IF Has(sig, "tail") THEN 1 ELSE 0)

\* `sha256=${...digest('hex')}`
ExpectedSignature(secret, payload) ==
  [scheme |-> "sha256=", hex |-> HmacSha256Hex(secret, payload)]

Returns(v) == [kind |-> "returns", value |-> v]
Throws(e) == [kind |-> "throws", error |-> e]

\* crypto.timingSafeEqual(Buffer.from(a.signature), Buffer.from(expected)):
\* Buffer.from(undefined) throws a TypeError, buffers of different byte
\* lengths a RangeError.
timingSafeEqual(a, expected) ==
  IF ~Has(a, "signature")
    THEN Throws("TypeError")
    ELSE IF ByteLength(a.signature) # ByteLength(expected)
      THEN Throws("RangeError")
      ELSE Returns(a.signature = expected)

\* verifySignature without its try/catch: the comparison's exception escapes.
VerifySignatureUnguarded(cfg, a) ==
  IF cfg.github.webhookSecret = ""
    THEN Returns(FALSE)
    ELSE timingSafeEqual(a, ExpectedSignature(cfg.github.webhookSecret, a.payload))

\* verifySignature without its check of the secret.
VerifySignatureAnySecret(cfg, a) ==
  LET compared == timingSafeEqual(a, ExpectedSignature(cfg.github.webhookSecret, a.payload))
  IN IF compared.kind = "throws" THEN Returns(FALSE) ELSE compared

\* verifySignature(payload, signature); a is the record of the arguments,
\* a.signature being absent when the header is.
verifySignature(cfg, a) ==
  IF cfg.github.webhookSecret = ""
    THEN Returns(FALSE)
    ELSE LET compared == timingSafeEqual(a, ExpectedSignature(cfg.github.webhookSecret, a.payload))
         IN IF compared.kind = "throws" THEN Returns(FALSE) ELSE compared

(***************************************************************************)
(* Event Normalizer                                                        *)
(***************************************************************************)

RefsHeads == <<"r", "e", "f", "s", "/", "h", "e", "a", "d", "s", "/">>

Null == [kind |-> "null"]

Pending == [kind |-> "pending"]

\* isPushEvent that accepts every ref
IsPushEventAnyRef(event) == Has(event, "ref")

\* isPushEvent: Boolean(event.ref && event.ref.startsWith('refs/heads/'))
isPushEvent(event) ==
  /\ Has(event, "ref")
  /\ event.ref # <<>>
  /\ StartsWith(event.ref, RefsHeads)

\* commits.map((commit) => commit.message)
RECURSIVE MapMessages(_)
MapMessages(commits) ==
  IF commits = <<>>
    THEN <<>>
    ELSE <<Head(commits).message>> \o MapMessages(Tail(commits))

\* commits.map((commit) => commit.author.name)
RECURSIVE MapAuthorNames(_)
MapAuthorNames(commits) ==
  IF commits = <<>>
    THEN <<>>
    ELSE <<Head(commits).author.name>> \o MapAuthorNames(Tail(commits))

InSeq(x, s) == \E i \in 1..Len(s) : s[i] = x

\* Set.prototype.add that keeps duplicates
SetAddAlways(set, x) == Append(set, x)

\* Set.prototype.add on an insertion-ordered set held as a sequence
SetAdd(set, x) == IF InSeq(x, set) THEN set ELSE Append(set, x)

\* set after adding the elements of xs, in order, each mapped by tag
RECURSIVE AddAll(_, _, _)
AddAll(set, tag, xs) ==
  IF xs = <<>>
    THEN set
    ELSE AddAll(SetAdd(set, <<tag, Head(xs)>>), tag, Tail(xs))

\* [...new Set(names)]
RECURSIVE UniqueFrom(_, _)
UniqueFrom(set, xs) ==
  IF xs = <<>>
    THEN set
    ELSE UniqueFrom(SetAdd(set, Head(xs)), Tail(xs))

\* [...new Set(names)] comparing the names without regard to case
UniqueIgnoringCase(xs) ==
  LET lower(name) == CASE name = "Ann" -> "ann"
                       [] name = "Bob" -> "bob"
                       [] OTHER -> name
      kept[i \in 0..Len(xs)] ==
        IF i = 0
          THEN <<>>
          ELSE IF \E j \in 1..Len(kept[i - 1]) : lower(kept[i - 1][j]) = lower(xs[i])
            THEN kept[i - 1]
            ELSE Append(kept[i - 1], xs[i])
  IN kept[Len(xs)]

\* [...new Set(xs)]
Unique(xs) == UniqueFrom(<<>>, xs)

\* the changedFiles set after the forEach over commits, starting from set
RECURSIVE CollectChangedFiles(_, _)
CollectChangedFiles(set, commits) ==
  IF commits = <<>>
    THEN set
    ELSE LET commit == Head(commits)
             added == AddAll(set, "+", commit.added)
             removed == AddAll(added, "-", commit.removed)
             modified == AddAll(removed, "~", commit.modified)
         IN CollectChangedFiles(modified, Tail(commits))

\* A property access inside processPushEvent that dereferences undefined.
PushDereferencesUndefined(event) ==
  \/ ~Has(event, "commits")
  \/ \E i \in 1..Len(event.commits) :
       \/ ~Has(event.commits[i], "author")
       \/ ~Has(event.commits[i], "added")
       \/ ~Has(event.commits[i], "removed")
       \/ ~Has(event.commits[i], "modified")
  \/ ~Has(event, "repository")
  \/ ~Has(event, "pusher")

\* The summary property name, read from obj[f]: undefined when obj has no f.
Prop(name, obj, f) == IF Has(obj, f) THEN name :> obj[f] ELSE <<>>

\* `https://github.com/${full_name}`
GitHubUrl(path) == [base |-> "https://github.com/", path |-> path]

PushSummary(event, now) ==
  Prop("repositoryName", event.repository, "full_name")
    @@ ("kind" :> "push")
    @@ ("repositoryUrl" :> GitHubUrl(IF Has(event.repository, "full_name")
                                       THEN event.repository.full_name
                                       ELSE <<"undefined">>))
    @@ ("branchName" :> Replace(event.ref, RefsHeads, <<>>))
    @@ ("commitMessages" :> MapMessages(event.commits))
    @@ ("authors" :> Unique(MapAuthorNames(event.commits)))
    @@ ("timestamp" :> now)
    @@ ("changedFiles" :> CollectChangedFiles(<<>>, event.commits))
    @@ Prop("compareUrl", event, "compare")
    @@ Prop("pusher", event.pusher, "name")

processPushEvent(event, now) ==
  IF ~isPushEvent(event)
    THEN Null
    ELSE IF PushDereferencesUndefined(event)
      THEN Throws("TypeError")
      ELSE PushSummary(event, now)

\* a star normalizer that drops every action but created and deleted
ProcessStarEventKnownActions(event, now) ==
  IF \/ ~Has(event, "action") \/ event.action \notin {"created", "deleted"}
     \/ ~Has(event, "repository")
     \/ ~Has(event, "sender")
    THEN Null
    ELSE ("kind" :> "star")
           @@ Prop("repositoryName", event.repository, "full_name")
           @@ Prop("repositoryUrl", event.repository, "html_url")
           @@ ("action" :> event.action)
           @@ Prop("userLogin", event.sender, "login")
           @@ Prop("userUrl", event.sender, "html_url")
           @@ Prop("starCount", event.repository, "stargazers_count")
           @@ ("timestamp" :> now)

\* processStarEvent
processStarEvent(event, now) ==
  IF \/ ~Has(event, "action") \/ event.action = ""
     \/ ~Has(event, "repository")
     \/ ~Has(event, "sender")
    THEN Null
    ELSE ("kind" :> "star")
           @@ Prop("repositoryName", event.repository, "full_name")
           @@ Prop("repositoryUrl", event.repository, "html_url")
           @@ ("action" :> event.action)
           @@ Prop("userLogin", event.sender, "login")
           @@ Prop("userUrl", event.sender, "html_url")
           @@ Prop("starCount", event.repository, "stargazers_count")
           @@ ("timestamp" :> now)

\* processForkEvent
processForkEvent(event, now) ==
  IF \/ ~Has(event, "forkee")
     \/ ~Has(event, "repository")
     \/ ~Has(event, "sender")
    THEN Null
    ELSE ("kind" :> "fork")
           @@ Prop("repositoryName", event.repository, "full_name")
           @@ Prop("repositoryUrl", event.repository, "html_url")
           @@ Prop("forkName", event.forkee, "full_name")
           @@ Prop("forkUrl", event.forkee, "html_url")
           @@ Prop("userLogin", event.sender, "login")
           @@ Prop("userUrl", event.sender, "html_url")
           @@ Prop("forkCount", event.repository, "forks_count")
           @@ ("timestamp" :> now)

\* a filter that also lets "edited" through
NotifiedActionsWithEdited == {"opened", "closed", "reopened", "edited"}

\* ['opened', 'closed', 'reopened'].includes(event.action)
NotifiedActions == {"opened", "closed", "reopened"}

BodyLimit == 200

\* labels.map(label => label.name)
RECURSIVE MapNames(_)
MapNames(labels) ==
  IF labels = <<>> THEN <<>> ELSE <<Head(labels).name>> \o MapNames(Tail(labels))

\* assignees?.map(assignee => assignee.login) || []
RECURSIVE MapLogins(_)
MapLogins(users) ==
  IF users = <<>> THEN <<>> ELSE <<Head(users).login>> \o MapLogins(Tail(users))

Assignees(item) == IF Has(item, "assignees") THEN MapLogins(item.assignees) ELSE <<>>

\* a summary body that is the whole payload body
BodyPropUncut(item) == IF Has(item, "body") THEN "body" :> item.body ELSE <<>>

\* body?.substring(0, 200)
BodyProp(item) ==
  IF Has(item, "body") THEN "body" :> Substring0(item.body, BodyLimit) ELSE <<>>

\* processIssueEvent
processIssueEvent(event, now) ==
  IF \/ ~Has(event, "action") \/ event.action = ""
     \/ ~Has(event, "issue")
     \/ ~Has(event, "repository")
     \/ ~Has(event, "sender")
    THEN Null
    ELSE IF event.action \notin NotifiedActions
      THEN Null
      ELSE IF ~Has(event.issue, "labels")
        THEN Throws("TypeError")
        ELSE ("kind" :> "issues")
               @@ Prop("repositoryName", event.repository, "full_name")
               @@ Prop("repositoryUrl", event.repository, "html_url")
               @@ Prop("issueNumber", event.issue, "number")
               @@ Prop("issueTitle", event.issue, "title")
               @@ Prop("issueUrl", event.issue, "html_url")
               @@ ("action" :> event.action)
               @@ Prop("userLogin", event.sender, "login")
               @@ Prop("userUrl", event.sender, "html_url")
               @@ ("timestamp" :> now)
               @@ ("labels" :> MapNames(event.issue.labels))
               @@ ("assignees" :> Assignees(event.issue))
               @@ BodyProp(event.issue)

\* processPullRequestEvent
processPullRequestEvent(event, now) ==
  IF \/ ~Has(event, "action") \/ event.action = ""
     \/ ~Has(event, "pull_request")
     \/ ~Has(event, "repository")
     \/ ~Has(event, "sender")
    THEN Null
    ELSE IF event.action \notin NotifiedActions
      THEN Null
      ELSE IF \/ ~Has(event.pull_request, "labels")
              \/ ~Has(event.pull_request, "base")
              \/ ~Has(event.pull_request, "head")
        THEN Throws("TypeError")
        ELSE ("kind" :> "pull_request")
               @@ Prop("repositoryName", event.repository, "full_name")
               @@ Prop("repositoryUrl", event.repository, "html_url")
               @@ Prop("pullRequestNumber", event.pull_request, "number")
               @@ Prop("pullRequestTitle", event.pull_request, "title")
               @@ Prop("pullRequestUrl", event.pull_request, "html_url")
               @@ ("action" :> event.action)
               @@ Prop("userLogin", event.sender, "login")
               @@ Prop("userUrl", event.sender, "html_url")
               @@ ("timestamp" :> now)
               @@ ("labels" :> MapNames(event.pull_request.labels))
               @@ ("assignees" :> Assignees(event.pull_request))
               @@ BodyProp(event.pull_request)
               @@ Prop("baseBranch", event.pull_request.base, "ref")
               @@ Prop("headBranch", event.pull_request.head, "ref")
               @@ Prop("isDraft", event.pull_request, "draft")
               @@ Prop("isMerged", event.pull_request, "merged")
               @@ Prop("changedFiles", event.pull_request, "changed_files")
               @@ Prop("additions", event.pull_request, "additions")
               @@ Prop("deletions", event.pull_request, "deletions")

SupportedEvents == {"push", "star", "fork", "issues", "pull_request"}

\* processWebhookEvent(event, eventType); now is what new Date() reads
processWebhookEvent(event, eventType, now) ==
  CASE eventType = "push" -> processPushEvent(event, now)
    [] eventType = "star" -> processStarEvent(event, now)
    [] eventType = "fork" -> processForkEvent(event, now)
    [] eventType = "issues" -> processIssueEvent(event, now)
    [] eventType = "pull_request" -> processPullRequestEvent(event, now)
    [] OTHER -> Null

(***************************************************************************)
(* Message Formatter                                                       *)
(*                                                                         *)
(* A text is the sequence of the segments a template literal is built      *)
(* from: Lit for the literal parts (emoji are written as :name:), Str for  *)
(* an interpolated string held as characters, Atom for one held whole,     *)
(* Num for a number, Join for array.join(sep) and File for a changed-file  *)
(* entry.  Interpolating undefined yields the literal "undefined".         *)
(***************************************************************************)

Lit(s) == [t |-> "lit", s |-> s]
Str(v) == [t |-> "str", v |-> v]
Atom(a) == [t |-> "atom", a |-> a]
Num(n) == [t |-> "num", n |-> n]
Join(items, sep) == [t |-> "join", items |-> items, sep |-> sep]
CodeJoin(items, sep) == [t |-> "codejoin", items |-> items, sep |-> sep]
File(entry) == [t |-> "file", tag |-> entry[1], path |-> entry[2]]

StrOf(data, f) == IF Has(data, f) THEN Str(data[f]) ELSE Lit("undefined")
AtomOf(data, f) == IF Has(data, f) THEN Atom(data[f]) ELSE Lit("undefined")
NumOf(data, f) == IF Has(data, f) THEN Num(data[f]) ELSE Lit("undefined")

\* s.split(sep): the pieces of s between the occurrences of the character
\* sep, the k-th piece lying between the (k-1)-th and the k-th occurrence
Split(s, sep) ==
  LET seps == {i \in 1..Len(s) : s[i] = sep}
      cut(k) == IF k = 0
                  THEN 0
                  ELSE IF k > Cardinality(seps)
                    THEN Len(s) + 1
                    ELSE CHOOSE p \in seps : Cardinality({q \in seps : q < p}) = k - 1
  IN [k \in 1..(Cardinality(seps) + 1) |-> SubSeq(s, cut(k - 1) + 1, cut(k) - 1)]

\* a tag that is the full name of the repository
GetRepoTagFullName(repositoryName) == repositoryName

\* getRepoTag: `#${repositoryName.split('/')[1] ?? repositoryName}`
getRepoTag(repositoryName) ==
  LET pieces == Split(repositoryName, "/")
  IN <<"#">> \o (IF Len(pieces) >= 2 THEN pieces[2] ELSE repositoryName)

ShownCommits == 5
CommitLineLimit == 80
CommitLineKept == 77
ShownFiles == 8
PreviewLimit == 150
PreviewKept == 147

Ellipsis == <<".", ".", ".">>

\* a line of the commit list that is never cut
CommitLineUncut(msg) == <<Lit("|- "), Str(Split(msg, "\n")[1]), Lit("\n")>>

\* one line of the commit list
CommitLine(msg) ==
  LET cleanMsg == Split(msg, "\n")[1]
      truncatedMsg == IF Len(cleanMsg) > CommitLineLimit
                        THEN Substring0(cleanMsg, CommitLineKept) \o Ellipsis
                        ELSE cleanMsg
  IN <<Lit("|- "), Str(truncatedMsg), Lit("\n")>>

RECURSIVE CommitLines(_)
CommitLines(msgs) ==
  IF msgs = <<>> THEN <<>> ELSE CommitLine(Head(msgs)) \o CommitLines(Tail(msgs))

RECURSIVE FileLines(_)
FileLines(files) ==
  IF files = <<>>
    THEN <<>>
    ELSE <<Lit("|- <code>"), File(Head(files)), Lit("</code>\n")>> \o FileLines(Tail(files))

\* a slice that keeps the whole array
SliceAll(q, n) == q

\* array.slice(0, n)
Slice0(q, n) == SubSeq(q, 1, IF n < Len(q) THEN n ELSE Len(q))

formatPushMessage(data) ==
  LET header == <<Lit(":rocket: <b>"), AtomOf(data, "pusher"), Lit("</b> pushed to <b>"),
                  Str(getRepoTag(data.repositoryName)), Lit("</b>\n\n")>>
      branchInfo == <<Lit(":herb: <b>Branch:</b> <code>"), Str(data.branchName), Lit("</code>\n")>>
      authorsInfo == <<Lit(":busts: <b>Authors:</b> "), Join(data.authors, ", "), Lit("\n\n")>>
      commits ==
        IF Len(data.commitMessages) > 0
          THEN <<Lit(":package: <b>Commits ("), Num(Len(data.commitMessages)), Lit(")</b>\n")>>
                 \o CommitLines(Slice0(data.commitMessages, ShownCommits))
                 \o (IF Len(data.commitMessages) > ShownCommits
                       THEN <<Lit("|- ...and "), Num(Len(data.commitMessages) - ShownCommits),
                              Lit(" more\n")>>
                       ELSE <<>>)
                 \o <<Lit("\n")>>
          ELSE <<>>
      files ==
        IF Len(data.changedFiles) > 0
          THEN <<Lit(":tools: <b>Changed "), Num(Len(data.changedFiles)),
                 Lit(IF Len(data.changedFiles) = 1 THEN " file" ELSE " files"), Lit("</b>\n")>>
                 \o FileLines(Slice0(data.changedFiles, ShownFiles))
                 \o (IF Len(data.changedFiles) > ShownFiles
                       THEN <<Lit("|- ...and "), Num(Len(data.changedFiles) - ShownFiles),
                              Lit(" more\n")>>
                       ELSE <<>>)
          ELSE <<>>
  IN header \o branchInfo \o authorsInfo \o commits \o files

formatStarMessage(data) ==
  <<Lit(IF data.action = "created" THEN ":star:" ELSE ":dizzy:"), Lit(" <b>"),
    AtomOf(data, "userLogin"), Lit("</b> "),
    Lit(IF data.action = "created" THEN "starred" ELSE "unstarred"), Lit(" <b>"),
    Str(getRepoTag(data.repositoryName)), Lit("</b>\n\n:chart: <b>Total Stars:</b> "),
    NumOf(data, "starCount")>>

formatForkMessage(data) ==
  <<Lit(":fork: <b>"), AtomOf(data, "userLogin"), Lit("</b> forked <b>"),
    Str(getRepoTag(data.repositoryName)), Lit("</b>\n\n:chart: <b>Total Forks:</b> "),
    NumOf(data, "forkCount")>>

getIssueEmoji(action) ==
  CASE action = "opened" -> ":bug:"
    [] action = "closed" -> ":check:"
    [] action = "reopened" -> ":cycle:"
    [] OTHER -> ":clipboard:"

getIssueActionText(action) == action

getPullRequestEmoji(data) ==
  IF data.action = "closed" /\ Has(data, "isMerged") /\ data.isMerged
    THEN ":tada:"
    ELSE CASE data.action = "opened" ->
                IF Has(data, "isDraft") /\ data.isDraft THEN ":memo:" ELSE ":twisted:"
           [] data.action = "closed" -> ":cross:"
           [] data.action = "reopened" -> ":cycle:"
           [] OTHER -> ":twisted:"

\* a verb chosen from the merged flag alone
GetPullRequestActionTextByFlag(data) ==
  IF Has(data, "isMerged") /\ data.isMerged THEN "merged" ELSE data.action

getPullRequestActionText(data) ==
  IF data.action = "closed" /\ Has(data, "isMerged") /\ data.isMerged
    THEN "merged"
    ELSE data.action

Whitespace == {" ", "\n", "\t"}

\* data.body && data.body.trim()
HasText(data) == Has(data, "body") /\ \E i \in 1..Len(data.body) : data.body[i] \notin Whitespace

BodyPreview(data) ==
  IF HasText(data)
    THEN <<Lit("\n:speech: <i>"),
           Str(IF Len(data.body) > PreviewLimit
                 THEN Substring0(data.body, PreviewKept) \o Ellipsis
                 ELSE data.body),
           Lit("</i>")>>
    ELSE <<>>

LabelsLine(data) ==
  IF Len(data.labels) > 0
    THEN <<Lit(":label: <b>Labels:</b> "), CodeJoin(data.labels, ", "), Lit("\n")>>
    ELSE <<>>

AssigneesLine(data) ==
  IF Len(data.assignees) > 0
    THEN <<Lit(":bust: <b>Assignees:</b> "), Join(data.assignees, ", "), Lit("\n")>>
    ELSE <<>>

formatIssueMessage(data) ==
  <<Lit(getIssueEmoji(data.action)), Lit(" <b>"), AtomOf(data, "userLogin"), Lit("</b> "),
    Lit(getIssueActionText(data.action)), Lit(" issue <b>#"), NumOf(data, "issueNumber"),
    Lit("</b> in <b>"), Str(getRepoTag(data.repositoryName)), Lit("</b>\n\n"),
    Lit(":clipboard: <b>Title:</b> "), AtomOf(data, "issueTitle"), Lit("\n")>>
    \o LabelsLine(data) \o AssigneesLine(data) \o BodyPreview(data)

ChangesLine(data) ==
  IF data.action \in {"opened", "reopened"} /\ Has(data, "changedFiles") /\ data.changedFiles # 0
    THEN <<Lit(":chart: <b>Changes:</b> "), Num(data.changedFiles), Lit(" files")>>
           \o (IF \/ (Has(data, "additions") /\ data.additions # 0)
                  \/ (Has(data, "deletions") /\ data.deletions # 0)
                 THEN <<Lit(" (+"), Num(IF Has(data, "additions") THEN data.additions ELSE 0),
                        Lit("/-"), Num(IF Has(data, "deletions") THEN data.deletions ELSE 0),
                        Lit(")")>>
                 ELSE <<>>)
           \o <<Lit("\n")>>
    ELSE <<>>

formatPullRequestMessage(data) ==
  <<Lit(getPullRequestEmoji(data)), Lit(" <b>"), AtomOf(data, "userLogin"), Lit("</b> "),
    Lit(getPullRequestActionText(data)), Lit(" pull request <b>#"),
    NumOf(data, "pullRequestNumber"), Lit("</b> in <b>"),
    Str(getRepoTag(data.repositoryName)), Lit("</b>\n\n"),
    Lit(":clipboard: <b>Title:</b> "), AtomOf(data, "pullRequestTitle"), Lit("\n"),
    Lit(":herb: <b>Branch:</b> <code>"), StrOf(data, "headBranch"), Lit("</code> -> <code>"),
    StrOf(data, "baseBranch"), Lit("</code>\n")>>
    \o (IF Has(data, "isDraft") /\ data.isDraft THEN <<Lit(":memo: <b>Status:</b> Draft\n")>> ELSE <<>>)
    \o LabelsLine(data) \o AssigneesLine(data) \o ChangesLine(data) \o BodyPreview(data)

\* a formatter that writes the time of the call into the text
FormatStamped(data, eventType) ==
  [kind |-> "returns", text |-> <<Lit("Sent at "), Atom(call.now)>>]

\* formatWebhookMessage(data, eventType); every formatter calls
\* getRepoTag(data.repositoryName), which throws on an undefined name
formatWebhookMessage(data, eventType) ==
  IF eventType \notin SupportedEvents
    THEN [kind |-> "returns", text |-> <<Lit("Unknown event type")>>]
    ELSE IF ~Has(data, "repositoryName")
      THEN Throws("TypeError")
      ELSE [ kind |-> "returns",
             text |-> CASE eventType = "push" -> formatPushMessage(data)
                        [] eventType = "star" -> formatStarMessage(data)
                        [] eventType = "fork" -> formatForkMessage(data)
                        [] eventType = "issues" -> formatIssueMessage(data)
                        [] eventType = "pull_request" -> formatPullRequestMessage(data) ]

Button(text, data, f) == IF Has(data, f) THEN [text |-> text, url |-> data[f]] ELSE [text |-> text]

\* createInlineKeyboard(data, eventType): the rows of buttons, no keyboard
\* (null) for an unknown event type
createInlineKeyboard(data, eventType) ==
  CASE eventType = "push" ->
         [ kind |-> "keyboard",
           inline_keyboard |-> << <<Button(":mag: Changes", data, "compareUrl"),
                                    Button(":books: Repository", data, "repositoryUrl")>> >> ]
    [] eventType = "star" ->
         [ kind |-> "keyboard",
           inline_keyboard |-> << <<Button(":books: Repository", data, "repositoryUrl"),
                                    Button(":bust: Profile", data, "userUrl")>> >> ]
    [] eventType = "fork" ->
         [ kind |-> "keyboard",
           inline_keyboard |-> << <<Button(":books: Original", data, "repositoryUrl"),
                                    Button(":fork: Fork", data, "forkUrl")>>,
                                  <<Button(":bust: Profile", data, "userUrl")>> >> ]
    [] eventType = "issues" ->
         [ kind |-> "keyboard",
           inline_keyboard |-> << <<Button(":bug: Issue", data, "issueUrl"),
                                    Button(":books: Repository", data, "repositoryUrl")>>,
                                  <<Button(":bust: Profile", data, "userUrl")>> >> ]
    [] eventType = "pull_request" ->
         [ kind |-> "keyboard",
           inline_keyboard |-> << <<Button(":twisted: Pull Request", data, "pullRequestUrl"),
                                    Button(":books: Repository", data, "repositoryUrl")>>,
                                  <<Button(":bust: Profile", data, "userUrl")>> >> ]
    [] OTHER -> Null

(***************************************************************************)
(* Routing Resolver and Notification Sink (TelegramService)                *)
(***************************************************************************)

\* getChatIdForRepository matching the keys without regard to case
GetChatIdIgnoringCase(cfg, repositoryName) ==
  LET LowerCase(name) == [i \in 1..Len(name) |-> IF name[i] = "O" THEN "o" ELSE name[i]]
      keys == {k \in DOMAIN cfg.repositories :
                 LowerCase(k) = LowerCase(repositoryName) /\ cfg.repositories[k] # ""}
  IN IF keys = {}
       THEN Null
       ELSE [kind |-> "string", value |-> cfg.repositories[CHOOSE k \in keys : TRUE]]

\* getChatIdForRepository: repositories?.[repositoryName] || null
getChatIdForRepository(cfg, repositoryName) ==
  IF repositoryName \in DOMAIN cfg.repositories /\ cfg.repositories[repositoryName] # ""
    THEN [kind |-> "string", value |-> cfg.repositories[repositoryName]]
    ELSE Null

\* a sendMessage that posts whatever the chat identifier is
SendMessageAnyChat(cfg, text, options) ==
  LET chatId == IF Has(options, "chatId") /\ options.chatId # ""
                  THEN options.chatId
                  ELSE cfg.telegram.defaultChatId
      payload == [ chat_id |-> chatId,
                   text |-> text,
                   parse_mode |-> "HTML",
                   disable_web_page_preview |-> options.disableWebPagePreview ]
  IN IF cfg.telegram.botToken = ""
       THEN Returns(FALSE)
       ELSE [ kind |-> "post",
              url |-> [ base |-> "https://api.telegram.org/bot",
                        token |-> cfg.telegram.botToken,
                        method |-> "/sendMessage" ],
              payload |-> IF options.replyMarkup.kind # "null"
                            THEN With(payload, "reply_markup", options.replyMarkup)
                            ELSE payload ]

\* sendMessage up to its await: it returns false with no call made, or
\* posts to the Bot API and waits for the answer.  options.chatId is absent
\* when the caller passes none.
sendMessage(cfg, text, options) ==
  LET chatId == IF Has(options, "chatId") /\ options.chatId # ""
                  THEN options.chatId
                  ELSE cfg.telegram.defaultChatId
      payload == [ chat_id |-> chatId,
                   text |-> text,
                   parse_mode |-> "HTML",
                   disable_web_page_preview |-> options.disableWebPagePreview ]
  IN IF cfg.telegram.botToken = ""
       THEN Returns(FALSE)
       ELSE IF chatId = ""
         THEN Returns(FALSE)
         ELSE [ kind |-> "post",
                url |-> [ base |-> "https://api.telegram.org/bot",
                          token |-> cfg.telegram.botToken,
                          method |-> "/sendMessage" ],
                payload |-> IF options.replyMarkup.kind # "null"
                              THEN With(payload, "reply_markup", options.replyMarkup)
                              ELSE payload ]

\* sendWebhookNotification(message, repositoryName, inlineKeyboard)
sendWebhookNotification(cfg, message, repositoryName, inlineKeyboard) ==
  LET repoChatId == getChatIdForRepository(cfg, repositoryName)
  IN IF repoChatId.kind = "string"
       THEN sendMessage(cfg, message, [ chatId |-> repoChatId.value,
                                        replyMarkup |-> inlineKeyboard,
                                        disableWebPagePreview |-> TRUE ])
       ELSE sendMessage(cfg, message, [ replyMarkup |-> inlineKeyboard,
                                        disableWebPagePreview |-> TRUE ])

\* a try block that takes every response for a success
AfterPostAnyResponse(answer) ==
  CASE answer = "network error" -> Throws("AxiosError")
    [] OTHER -> Returns(TRUE)

\* The body of sendMessage's try block once axios.post has settled.  The
\* answer is "ok" for a response whose data.ok is true, "not ok" for one
\* whose data.ok is false, "no ok" for one whose data has no ok property,
\* "no data" for a response without data (reading .ok of undefined throws)
\* and "network error" for a rejected promise (no response, or an HTTP error
\* status).
AfterPost(answer) ==
  CASE answer = "network error" -> Throws("AxiosError")
    [] answer = "no data" -> Throws("TypeError")
    [] OTHER -> Returns(answer = "ok")

\* sendMessage without its catch block
SendResultUncaught(answer) == AfterPost(answer)

\* what sendMessage returns once axios.post has settled: the catch block
\* turns every exception into false
SendResult(answer) ==
  LET attempt == AfterPost(answer)
  IN IF attempt.kind = "throws" THEN Returns(FALSE) ELSE attempt

\* testConnection without its check of the bot token
TestConnectionUnchecked(cfg) ==
  [ kind |-> "get",
    url |-> [ base |-> "https://api.telegram.org/bot",
              token |-> cfg.telegram.botToken,
              method |-> "/getMe" ] ]

\* testConnection up to its await: it returns false with no call made, or
\* gets getMe from the Bot API and waits for the answer
testConnection(cfg) ==
  IF cfg.telegram.botToken = ""
    THEN Returns(FALSE)
    ELSE [ kind |-> "get",
           url |-> [ base |-> "https://api.telegram.org/bot",
                     token |-> cfg.telegram.botToken,
                     method |-> "/getMe" ] ]

\* what testConnection returns once axios.get has settled; the answer
\* "ok no result" is a response whose data.ok is true and whose data has no
\* result, so that reading result.username throws inside the try block
TestResult(answer) ==
  LET attempt == CASE answer \in {"network error", "no data", "ok no result"} -> Throws("Error")
                   [] OTHER -> Returns(answer = "ok")
  IN IF attempt.kind = "throws" THEN Returns(FALSE) ELSE attempt

(***************************************************************************)
(* Webhook Endpoint (WebhookController.handleGitHubWebhook)                *)
(*                                                                         *)
(* A delivery is the record [body, signature, eventType, now]: the raw     *)
(* request body, the x-hub-signature-256 and x-github-event headers (each  *)
(* absent when the header is) and the clock reading of the request.        *)
(***************************************************************************)

Unknown == <<"u", "n", "k", "n", "o", "w", "n">>

\* a controller that keeps the repository name in a field of its own, which
\* the delivery handled in the first slot overwrites
GetRepositoryNameShared(data) ==
  IF /\ inflight[1].pc # "idle"
     /\ Has(inflight[1].processedData, "repositoryName")
    THEN inflight[1].processedData.repositoryName
    ELSE IF Has(data, "repositoryName") /\ data.repositoryName # <<>>
      THEN data.repositoryName
      ELSE <<"u", "n", "k", "n", "o", "w", "n">>

\* getRepositoryName: data.repositoryName || 'unknown'
getRepositoryName(data) ==
  IF Has(data, "repositoryName") /\ data.repositoryName # <<>>
    THEN data.repositoryName
    ELSE Unknown

\* const rawBody = JSON.stringify(payload), payload being the parsed body
RawBody(r) == JsonStringify(JsonParse(r.body))

VerifyArguments(r) ==
  IF Has(r, "signature")
    THEN [payload |-> RawBody(r), signature |-> r.signature]
    ELSE [payload |-> RawBody(r)]

BadRequest == [status |-> 400, error |-> "Invalid webhook signature"]
InternalServerError == [status |-> 500, error |-> "Internal server error"]

Ok(success, message, r) ==
  IF Has(r, "eventType")
    THEN [status |-> 200, success |-> success, message |-> message, eventType |-> r.eventType]
    ELSE [status |-> 200, success |-> success, message |-> message]

Step(tr, data, out, resp, next) ==
  [trace |-> tr, processedData |-> data, outbound |-> out, response |-> resp, pc |-> next]

\* handleGitHubWebhook from the formatted message to the outbound call
Notify(cfg, r, tr, data, message) ==
  LET keyboard == createInlineKeyboard(data, r.eventType)
      repositoryName == getRepositoryName(data)
      sent == sendWebhookNotification(cfg, message.text, repositoryName, keyboard)
      called == tr \o <<"createInlineKeyboard", "getRepositoryName", "sendWebhookNotification",
                        "getChatIdForRepository", "sendMessage">>
  IN IF sent.kind = "post"
       THEN Step(called \o <<"axios.post">>, data, <<sent>>, Pending, "awaiting")
       ELSE Step(called, data, <<>>,
                 Ok(FALSE, <<Atom(r.eventType), Lit(" event processed but notification failed")>>, r),
                 "done")

\* a controller that takes no processedData for filtered
FilteredNever(data) == FALSE

\* if (!processedData)
Filtered(data) == data.kind = "null"

\* handleGitHubWebhook after the signature check
Process(cfg, r, tr) ==
  IF ~(Has(r, "eventType") /\ r.eventType \in SupportedEvents)
    THEN Step(tr, Pending, <<>>,
              Ok(TRUE, <<Lit("Event "), AtomOf(r, "eventType"), Lit(" is not supported")>>, r), "done")
    ELSE LET data == processWebhookEvent(JsonParse(r.body), r.eventType, r.now)
             tr2 == Append(tr, "processWebhookEvent")
         IN CASE data.kind = "throws" -> Step(tr2, data, <<>>, InternalServerError, "done")
              [] Filtered(data) ->
                   Step(tr2, data, <<>>, Ok(TRUE, <<Lit("Event processed (filtered out)")>>, r), "done")
              [] OTHER ->
                   LET message == formatWebhookMessage(data, r.eventType)
                       tr3 == Append(tr2, "formatWebhookMessage")
                   IN IF message.kind = "throws"
                        THEN Step(tr3, data, <<>>, InternalServerError, "done")
                        ELSE Notify(cfg, r, tr3, data, message)

\* handleGitHubWebhook carrying on after a failed signature check
HandleIgnoringSignature(cfg, r) == Process(cfg, r, <<"verifySignature">>)

\* handleGitHubWebhook up to its await
Handle(cfg, r) ==
  LET verified == verifySignature(cfg, VerifyArguments(r))
  IN IF ~verified.value
       THEN Step(<<"verifySignature">>, Pending, <<>>, BadRequest, "done")
       ELSE Process(cfg, r, <<"verifySignature">>)

(***************************************************************************)
(* The payloads the model delivers.                                        *)
(***************************************************************************)

MaxCommits == 3

RefMain == RefsHeads \o <<"m">>
RefTag == <<"r", "e", "f", "s", "/", "t", "a", "g", "s", "/", "v", "1">>
RefNested == RefsHeads \o <<"x", "/">> \o RefsHeads \o <<"y">>

Refs ==
  { RefMain,
    RefTag,
    RefNested,
    RefsHeads,
    SubSeq(RefsHeads, 1, Len(RefsHeads) - 1),
    <<"x">> \o RefMain,
    <<"R">> \o Tail(RefMain),
    <<"m">>,
    <<>> }

Repository(name) ==
  [ full_name |-> name,
    html_url |-> GitHubUrl(name),
    stargazers_count |-> 42,
    forks_count |-> 7 ]

Sender == [login |-> "alice", html_url |-> GitHubUrl(<<"a">>)]

CommitSamples ==
  { [ message |-> <<"F", "i", "x">>, author |-> [name |-> "Ann"],
      added |-> <<"a.ts">>, removed |-> <<>>, modified |-> <<"b.ts">> ],
    [ message |-> <<"A", "d", "d", "\n", "x">>, author |-> [name |-> "Bob"],
      added |-> <<>>, removed |-> <<"b.ts">>, modified |-> <<"a.ts">> ],
    [ message |-> <<"F", "i", "x">>, author |-> [name |-> "ann"],
      added |-> <<"a.ts", "a.ts">>, removed |-> <<"a.ts">>, modified |-> <<>> ],
    [ message |-> <<>>, author |-> [name |-> "Ann"],
      added |-> <<"b.ts", "a.ts">>, removed |-> <<>>, modified |-> <<"b.ts">> ] }

RECURSIVE SeqsUpTo(_, _)
SeqsUpTo(S, n) ==
  IF n = 0
    THEN {<<>>}
    ELSE LET shorter == SeqsUpTo(S, n - 1)
         IN shorter \cup {Append(q, x) : q \in {r \in shorter : Len(r) = n - 1}, x \in S}

PushEvent(ref, commits) ==
  [ ref |-> ref,
    commits |-> commits,
    repository |-> Repository(RepoOR),
    pusher |-> [name |-> "alice"],
    sender |-> Sender,
    compare |-> GitHubUrl(<<"o", "/", "r", "/", "c">>) ]

\* push payloads with every required field
ValidPushEvents == {PushEvent(r, cs) : r \in Refs, cs \in SeqsUpTo(CommitSamples, MaxCommits)}

CommitWithoutAdded == Without(CHOOSE c \in CommitSamples : c.author.name = "Bob", "added")

\* push payloads that lack a required field
MalformedPushEvents ==
  LET bases == {PushEvent(r, <<CHOOSE c \in CommitSamples : c.author.name = "Bob">>) : r \in {RefMain, RefTag}}
  IN UNION { { Without(e, "ref"),
               Without(e, "commits"),
               Without(e, "pusher"),
               Without(e, "repository"),
               Without(e, "compare"),
               With(e, "repository", Without(e.repository, "full_name")),
               With(e, "pusher", Without(e.pusher, "name")),
               With(e, "commits", <<CommitWithoutAdded>>) } : e \in bases }

StarEvent(action) == [action |-> action, repository |-> Repository(RepoOR), sender |-> Sender]

ValidStarEvents == {StarEvent(a) : a \in {"created", "deleted"}}

MalformedStarEvents ==
  LET e == StarEvent("created")
  IN { Without(e, "action"),
       With(e, "action", ""),
       Without(e, "repository"),
       Without(e, "sender"),
       With(e, "repository", Without(e.repository, "full_name")),
       With(e, "sender", Without(e.sender, "login")) }

ForkEvent ==
  [forkee |-> Repository(<<"a", "/", "r">>), repository |-> Repository(RepoOR), sender |-> Sender]

MalformedForkEvents ==
  { Without(ForkEvent, "forkee"),
    Without(ForkEvent, "repository"),
    Without(ForkEvent, "sender"),
    With(ForkEvent, "forkee", Without(ForkEvent.forkee, "full_name")) }

ShortBody == <<"h", "i">>
LongBody == [i \in 1..(BodyLimit + 1) |-> IF i <= BodyLimit THEN "b" ELSE "c"]

Issue ==
  [ number |-> 5,
    title |-> "t",
    html_url |-> GitHubUrl(<<"o", "/", "r", "/", "i">>),
    labels |-> <<[name |-> "bug"]>>,
    assignees |-> <<[login |-> "bob"]>>,
    body |-> ShortBody ]

IssueEvent(action, issue) ==
  [action |-> action, issue |-> issue, repository |-> Repository(RepoOR), sender |-> Sender]

Actions == {"opened", "closed", "reopened", "edited", "labeled", "synchronize"}

ValidIssueEvents ==
  {IssueEvent(a, i) : a \in Actions,
                      i \in {Issue, With(Issue, "body", LongBody), Without(Issue, "body"),
                             Without(Issue, "assignees")}}

MalformedIssueEvents ==
  UNION { LET e == IssueEvent(a, Issue)
          IN { Without(e, "action"),
               With(e, "action", ""),
               Without(e, "issue"),
               Without(e, "repository"),
               Without(e, "sender"),
               With(e, "issue", Without(Issue, "labels")),
               With(e, "issue", Without(Issue, "title")),
               With(e, "repository", Without(e.repository, "full_name")) }
          : a \in {"opened", "edited"} }

PullRequest ==
  [ number |-> 6,
    title |-> "t",
    html_url |-> GitHubUrl(<<"o", "/", "r", "/", "p">>),
    labels |-> <<>>,
    assignees |-> <<>>,
    body |-> ShortBody,
    base |-> [ref |-> <<"m">>],
    head |-> [ref |-> <<"f">>],
    draft |-> FALSE,
    merged |-> FALSE,
    changed_files |-> 3,
    additions |-> 10,
    deletions |-> 2 ]

PullRequestEvent(action, pr) ==
  [action |-> action, pull_request |-> pr, repository |-> Repository(RepoOR), sender |-> Sender]

ValidPullRequestEvents ==
  {PullRequestEvent(a, pr) : a \in Actions,
                             pr \in {PullRequest, With(PullRequest, "merged", TRUE),
                                     With(PullRequest, "draft", TRUE),
                                     With(PullRequest, "body", LongBody)}}

MalformedPullRequestEvents ==
  UNION { LET e == PullRequestEvent(a, PullRequest)
          IN { Without(e, "action"),
               Without(e, "pull_request"),
               Without(e, "repository"),
               Without(e, "sender"),
               With(e, "pull_request", Without(PullRequest, "labels")),
               With(e, "pull_request", Without(PullRequest, "base")),
               With(e, "pull_request", Without(PullRequest, "merged")),
               With(e, "pull_request", With(PullRequest, "head", Without(PullRequest.head, "ref"))) }
          : a \in {"opened", "edited"} }

Now == {"t1", "t2"}

(***************************************************************************)
(* Calls of the service methods on their own: Init draws the arguments,    *)
(* the action applies the method.                                          *)
(***************************************************************************)

NoRequest == [kind |-> "none"]

MaxInFlight == 2

Slots == 1..MaxInFlight

\* no delivery is being handled in the slot
IdleSlot == [pc |-> "idle"]

ControllerIdle ==
  /\ inflight = [s \in Slots |-> IdleSlot]
  /\ pc = "idle"
  /\ req = NoRequest
  /\ trace = <<>>
  /\ processedData = Pending
  /\ outbound = <<>>
  /\ response = Pending

Bodies ==
  {[json |-> e, layout |-> l] : e \in {StarEvent("created"), ForkEvent}, l \in {"compact", "spaced"}}

Secrets == {"", "s1", "s2"}

Signatures ==
  {ExpectedSignature(k, b) : k \in Secrets, b \in Bodies}
    \cup { [scheme |-> "sha256=", hex |-> DeadBeef],
           [scheme |-> "sha256="],
           [scheme |-> ""] }
    \cup UNION { { [scheme |-> "sha1=", hex |-> HmacSha256Hex("s1", b)],
                   [scheme |-> "", hex |-> HmacSha256Hex("s1", b)],
                   [scheme |-> "sha256=", hex |-> HmacSha256Hex("s1", b), tail |-> "x"] }
                 : b \in Bodies }

VerifyCalls ==
  {[fn |-> "verifySignature", payload |-> b] : b \in Bodies}
    \cup {[fn |-> "verifySignature", payload |-> b, signature |-> g] : b \in Bodies, g \in Signatures}

InitVerify ==
  /\ config \in Configs
  /\ call \in VerifyCalls
  /\ ret = Pending
  /\ ControllerIdle

ApplyVerifySignature ==
  /\ call.fn = "verifySignature"
  /\ ret = Pending
  /\ ret' = verifySignature(config, call)
  /\ UNCHANGED <<inflight, config, call, pc, req, trace, processedData, outbound, response>>

SpecVerify == InitVerify /\ [][ApplyVerifySignature]_vars

DefaultEnv ==
  [ named |-> [GITHUB_WEBHOOK_SECRET |-> "s1", TELEGRAM_BOT_TOKEN |-> "tok", TELEGRAM_CHAT_ID |-> "chatD"],
    others |-> <<>> ]

EventTypes == SupportedEvents \cup {"ping"}

OtherEvents ==
  ValidStarEvents \cup MalformedStarEvents \cup {ForkEvent} \cup MalformedForkEvents
    \cup ValidIssueEvents \cup MalformedIssueEvents
    \cup ValidPullRequestEvents \cup MalformedPullRequestEvents

NormalizeCalls ==
  {[fn |-> "processWebhookEvent", event |-> e, eventType |-> "push", now |-> t]
     : e \in ValidPushEvents \cup MalformedPushEvents, t \in Now}
    \cup {[fn |-> "processWebhookEvent", event |-> e, eventType |-> ty, now |-> t]
            : e \in OtherEvents, ty \in EventTypes, t \in Now}

InitNormalize ==
  /\ config = configuration(DefaultEnv)
  /\ call \in NormalizeCalls
  /\ ret = Pending
  /\ ControllerIdle

ApplyProcessWebhookEvent ==
  /\ call.fn = "processWebhookEvent"
  /\ ret = Pending
  /\ ret' = processWebhookEvent(call.event, call.eventType, call.now)
  /\ UNCHANGED <<inflight, config, call, pc, req, trace, processedData, outbound, response>>

SpecNormalize == InitNormalize /\ [][ApplyProcessWebhookEvent]_vars

Answers == {"ok", "not ok", "no ok", "no data", "network error"}

SendOptions ==
  LET base == [replyMarkup |-> Null, disableWebPagePreview |-> FALSE]
  IN {base, With(base, "chatId", ""), With(base, "chatId", "chatA")}

TelegramCalls ==
  {[fn |-> "sendMessage", text |-> <<Lit("hi")>>, options |-> o] : o \in SendOptions}
    \cup {[ fn |-> "sendWebhookNotification", message |-> <<Lit("hi")>>,
            repositoryName |-> n, inlineKeyboard |-> Null ] : n \in {RepoOR, RepoCase, Unknown}}
    \cup {[fn |-> "testConnection"]}

InitTelegram ==
  /\ config \in Configs
  /\ call \in TelegramCalls
  /\ ret = Pending
  /\ ControllerIdle

\* the method runs up to its return or to its await on the Bot API
ApplyTelegram ==
  /\ call.fn \in {"sendMessage", "sendWebhookNotification", "testConnection"}
  /\ ret = Pending
  /\ ret' = CASE call.fn = "sendMessage" -> sendMessage(config, call.text, call.options)
              [] call.fn = "sendWebhookNotification" ->
                   sendWebhookNotification(config, call.message, call.repositoryName,
                                           call.inlineKeyboard)
              [] call.fn = "testConnection" -> testConnection(config)
  /\ outbound' = IF ret'.kind \in {"post", "get"} THEN <<ret'>> ELSE <<>>
  /\ UNCHANGED <<inflight, config, call, pc, req, trace, processedData, response>>

\* the Bot API answers (or the call fails) and the method returns
TelegramAnswers(answer) ==
  /\ ret.kind \in {"post", "get"}
  /\ answer = "ok no result" => ret.kind = "get"
  /\ ret' = IF ret.kind = "post" THEN SendResult(answer) ELSE TestResult(answer)
  /\ outbound' = <<With(outbound[1], "answer", answer)>>
  /\ UNCHANGED <<inflight, config, call, pc, req, trace, processedData, response>>

NextTelegram ==
  \/ ApplyTelegram
  \/ \E answer \in Answers \cup {"ok no result"} : TelegramAnswers(answer)

SpecTelegram == InitTelegram /\ [][NextTelegram]_vars

(***************************************************************************)
(* Calls of the formatter: the same summary is formatted several times, at *)
(* different clock readings and with other summaries formatted in between. *)
(***************************************************************************)

MaxFormatCalls == 3
MaxMessages == 7

Chars(n, c) == [i \in 1..n |-> c]

Digits == <<"1", "2", "3", "4", "5", "6", "7", "8", "9">>

\* the i-th commit message of a long push: messages differ in their first
\* character and their first lines are 79, 80 and 81 characters long, 81
\* followed by a second line, one character followed by a second line, 200
\* characters, a short line that itself ends in "...", and one character
Message(i) ==
  <<Digits[i]>> \o
    CASE i = 1 -> Chars(78, "x")
      [] i = 2 -> Chars(79, "x")
      [] i = 3 -> Chars(80, "x")
      [] i = 4 -> Chars(80, "x") \o <<"\n", "y">>
      [] i = 5 -> <<"\n", "z">>
      [] i = 6 -> Chars(199, "x")
      [] i = 7 -> <<".", ".", ".">>
      [] OTHER -> <<>>

\* the messages i, i+1, ..., n in this order, or in the reverse order
MessagesFrom(i, n) == [k \in 1..(n - i + 1) |-> Message(i + k - 1)]
MessagesDownFrom(n, i) == [k \in 1..(n - i + 1) |-> Message(n - k + 1)]

\* push summaries with up to MaxMessages commit messages
LongPushSummaries ==
  LET base == processPushEvent(PushEvent(RefMain, <<>>), "t1")
  IN {With(base, "commitMessages", MessagesFrom(i, n)) : i \in 1..3, n \in 0..MaxMessages}
       \cup {With(base, "commitMessages", MessagesDownFrom(n, 1)) : n \in 1..MaxMessages}

MaxFiles == 10

FilePaths == <<"f01", "f02", "f03", "f04", "f05", "f06", "f07", "f08", "f09", "f10", "f11", "f12">>

\* a commit that adds the first n sample files and modifies the first of them
ManyFilesCommit(n) ==
  [ message |-> <<"F", "i", "x">>, author |-> [name |-> "Ann"],
    added |-> SubSeq(FilePaths, 1, n), removed |-> <<>>,
    modified |-> SubSeq(FilePaths, 1, IF n > 0 THEN 1 ELSE 0) ]

\* the summaries of pushes that change up to 2 * MaxFiles file entries
ManyFilesSummaries ==
  {processPushEvent(PushEvent(RefMain, <<ManyFilesCommit(n)>>), "t1") : n \in 0..MaxFiles}

\* the summaries the normalizer returns for the sample payloads, each with
\* the event type it was normalized under
NormalizedInputs ==
  {[data |-> processWebhookEvent(c.event, c.eventType, c.now), eventType |-> c.eventType]
     : c \in NormalizeCalls}

FormatInputs ==
  {x \in NormalizedInputs : x.data.kind \notin {"null", "throws"}}
    \cup {[data |-> d, eventType |-> "push"] : d \in LongPushSummaries}
    \cup {[data |-> d, eventType |-> "push"] : d \in ManyFilesSummaries}
    \cup {[data |-> processStarEvent(With(StarEvent("created"), "repository", Repository(n)), "t1"),
            eventType |-> "star"] : n \in RepoNames}
    \cup {[data |-> processStarEvent(StarEvent("created"), "t1"), eventType |-> "ping"]}

\* summaries formatted between two calls for the same summary
OtherInputs ==
  { [data |-> processStarEvent(StarEvent("deleted"), "t2"), eventType |-> "star"],
    [data |-> processForkEvent(ForkEvent, "t2"), eventType |-> "fork"] }

\* one call of formatWebhookMessage and one of createInlineKeyboard
FormatBoth(data, eventType) ==
  [ message |-> formatWebhookMessage(data, eventType),
    keyboard |-> createInlineKeyboard(data, eventType) ]

InitFormat ==
  /\ config = configuration(DefaultEnv)
  /\ call \in {[fn |-> "format", data |-> x.data, eventType |-> x.eventType, now |-> "t1"]
                 : x \in FormatInputs}
  /\ ret = Pending
  /\ ControllerIdle

\* the first call for the summary
ApplyFormat ==
  /\ call.fn = "format"
  /\ ret = Pending
  /\ ret' = [kind |-> "formatted", results |-> <<FormatBoth(call.data, call.eventType)>>]
  /\ UNCHANGED <<inflight, config, call, pc, req, trace, processedData, outbound, response>>

\* another summary is formatted in between
FormatOther(x) ==
  /\ call.fn = "format"
  /\ ret.kind = "formatted"
  /\ ret' = With(ret, "other", FormatBoth(x.data, x.eventType))
  /\ UNCHANGED <<inflight, config, call, pc, req, trace, processedData, outbound, response>>

\* a later call with the same arguments, the clock reading t
FormatAgain(t) ==
  /\ call.fn = "format"
  /\ ret.kind = "formatted"
  /\ Len(ret.results) < MaxFormatCalls
  /\ call' = With(call, "now", t)
  /\ ret' = With(ret, "results", Append(ret.results, FormatBoth(call'.data, call'.eventType)))
  /\ UNCHANGED <<inflight, config, pc, req, trace, processedData, outbound, response>>

NextFormat ==
  \/ ApplyFormat
  \/ \E x \in OtherInputs : FormatOther(x)
  \/ \E t \in Now : FormatAgain(t)

SpecFormat == InitFormat /\ [][NextFormat]_vars

(***************************************************************************)
(* Startup: configuration() builds the AppConfig from process.env.         *)
(***************************************************************************)

\* environment keys of the REPO_<name>_CHAT_ID shape, the name a full name,
\* a name with "_", names that hold "REPO_" or "_CHAT_ID" themselves and
\* the empty name, and keys that lack the prefix or the suffix
KeySamples ==
  { EnvKey(RepoOR),
    EnvKey(RepoUnder),
    EnvKey(RepoPrefix \o <<"x">>),
    EnvKey(<<"a">> \o ChatIdSuffix \o <<"b">>),
    EnvKey(<<>>),
    RepoPrefix \o <<"x">>,
    <<"x">> \o ChatIdSuffix,
    <<"x">> \o EnvKey(RepoOR),
    <<"P", "O", "R", "T">> }

EnvPairs == {<<k, v>> : k \in KeySamples, v \in {"chatA", "chatB"}}

\* process.env with up to two more variables, no key twice
ConfigureCalls ==
  {[fn |-> "configuration", env |-> [named |-> DefaultEnv.named, others |-> o]]
     : o \in {<<>>} \cup {<<x>> : x \in EnvPairs}
             \cup {p \in EnvPairs \X EnvPairs : p[1][1] # p[2][1]}}

InitConfigure ==
  /\ config = Pending
  /\ call \in ConfigureCalls
  /\ ret = Pending
  /\ ControllerIdle

\* the configuration factory runs
Configure ==
  /\ call.fn = "configuration"
  /\ ret = Pending
  /\ config' = configuration(call.env)
  /\ ret' = [kind |-> "configured"]
  /\ UNCHANGED <<inflight, call, pc, req, trace, processedData, outbound, response>>

SpecConfigure == InitConfigure /\ [][Configure]_vars

(***************************************************************************)
(* A payload normalized and its summary then formatted, as                 *)
(* handleGitHubWebhook does between the signature check and the send.      *)
(***************************************************************************)

MaxBody == 250

\* a body of n characters whose characters tell where a cut fell
MarkedBody(n) ==
  [i \in 1..n |-> IF i <= PreviewKept THEN "a"
                   ELSE IF i <= PreviewLimit THEN "b"
                   ELSE IF i <= BodyLimit THEN "c"
                   ELSE "d"]

\* bodies around the two limits, a short body that ends in "...", the empty
\* body and bodies of white space only
BodySamples ==
  {MarkedBody(n) : n \in {2, PreviewKept, PreviewLimit, PreviewLimit + 1, BodyLimit,
                           BodyLimit + 1, MaxBody}}
    \cup { <<"w", "i", "p", ".", ".", ".">>, <<>>, <<" ", "\n">>,
           [i \in 1..(PreviewLimit + 1) |-> " "] }

BodyEvents ==
  {IssueEvent(a, With(Issue, "body", b)) : a \in NotifiedActions, b \in BodySamples}
    \cup {PullRequestEvent(a, With(PullRequest, "body", b)) : a \in NotifiedActions, b \in BodySamples}
    \cup {IssueEvent("opened", Without(Issue, "body")),
          PullRequestEvent("opened", Without(PullRequest, "body"))}

StarActions == {"created", "deleted", "edited", ""}

StarEvents ==
  {StarEvent(a) : a \in StarActions}
    \cup UNION { { Without(StarEvent(a), "action"),
                   Without(StarEvent(a), "repository"),
                   Without(StarEvent(a), "sender"),
                   Without(Without(StarEvent(a), "repository"), "sender") }
                 : a \in StarActions }

PipelineCalls ==
  {[fn |-> "pipeline", event |-> e, eventType |-> ty, now |-> t]
     : e \in BodyEvents, ty \in {"issues", "pull_request"}, t \in Now}
    \cup {[fn |-> "pipeline", event |-> e, eventType |-> "star", now |-> t]
            : e \in StarEvents, t \in Now}

InitPipeline ==
  /\ config = configuration(DefaultEnv)
  /\ call \in PipelineCalls
  /\ ret = Pending
  /\ ControllerIdle

\* processedData = processWebhookEvent(payload, eventType)
Summarize ==
  /\ call.fn = "pipeline"
  /\ ret = Pending
  /\ ret' = [kind |-> "summarized",
             data |-> processWebhookEvent(call.event, call.eventType, call.now)]
  /\ UNCHANGED <<inflight, config, call, pc, req, trace, processedData, outbound, response>>

\* message = formatWebhookMessage(processedData, eventType), for a summary
FormatSummary ==
  /\ call.fn = "pipeline"
  /\ ret.kind = "summarized"
  /\ ret.data.kind \notin {"null", "throws"}
  /\ ret' = [kind |-> "messaged", data |-> ret.data,
             message |-> formatWebhookMessage(ret.data, call.eventType)]
  /\ UNCHANGED <<inflight, config, call, pc, req, trace, processedData, outbound, response>>

NextPipeline == Summarize \/ FormatSummary

SpecPipeline == InitPipeline /\ [][NextPipeline]_vars

(***************************************************************************)
(* The endpoint: deliveries handled one after the other.                   *)
(***************************************************************************)

DeliveredEvents ==
  { PushEvent(RefMain, <<CHOOSE c \in CommitSamples : c.author.name = "Bob">>),
    PushEvent(RefTag, <<CHOOSE c \in CommitSamples : c.author.name = "Bob">>),
    Without(PushEvent(RefMain, <<>>), "commits"),
    Without(StarEvent("created"), "action"),
    With(StarEvent("created"), "repository", Without(Repository(RepoOR), "full_name")),
    ForkEvent,
    IssueEvent("opened", Without(Issue, "labels")) }
    \cup {With(StarEvent("created"), "repository", Repository(n)) : n \in RepoNames \cup {<<>>}}
    \cup {IssueEvent(a, Issue) : a \in Actions}
    \cup {PullRequestEvent(a, PullRequest) : a \in Actions}

DeliveredBodies == {[json |-> e, layout |-> l] : e \in DeliveredEvents, l \in {"compact", "spaced"}}

\* the signature headers a delivery of body b may carry
DeliveredSignatures(b) ==
  { ExpectedSignature("s1", b),
    ExpectedSignature("s1", JsonStringify(JsonParse(b))),
    ExpectedSignature("", b),
    [scheme |-> "sha256=", hex |-> DeadBeef] }

Deliveries ==
  UNION { {[body |-> b, eventType |-> ty, now |-> "t1"] : ty \in EventTypes}
            \cup {[body |-> b, signature |-> g, now |-> "t1"] : g \in DeliveredSignatures(b)}
            \cup {[body |-> b, signature |-> g, eventType |-> ty, now |-> "t1"]
                    : g \in DeliveredSignatures(b), ty \in EventTypes}
          : b \in DeliveredBodies }

Init ==
  /\ config \in Configs
  /\ call = [fn |-> "none"]
  /\ ret = Pending
  /\ ControllerIdle

\* a delivery arrives and handleGitHubWebhook runs up to its await or its end
Deliver(r) ==
  /\ pc = "idle"
  /\ LET step == Handle(config, r)
     IN /\ req' = r
        /\ trace' = step.trace
        /\ processedData' = step.processedData
        /\ outbound' = step.outbound
        /\ response' = step.response
        /\ pc' = step.pc
  /\ UNCHANGED <<inflight, config, call, ret>>

\* handleGitHubWebhook for the delivery r from the settling of its outbound
\* call out to its end
Finish(r, out, answer) ==
  LET sent == SendResult(answer)
  IN [ outbound |-> <<With(With(out[1], "answer", answer), "returned", sent)>>,
       response |->
         IF sent.kind = "throws"
           THEN InternalServerError
           ELSE IF sent.value
             THEN Ok(TRUE, <<Atom(r.eventType), Lit(" event processed and notification sent")>>, r)
             ELSE Ok(FALSE, <<Atom(r.eventType), Lit(" event processed but notification failed")>>, r) ]

\* the Bot API answers (or the call fails): sendMessage returns and
\* handleGitHubWebhook runs to its end
ApiAnswers(answer) ==
  /\ pc = "awaiting"
  /\ outbound' = Finish(req, outbound, answer).outbound
  /\ response' = Finish(req, outbound, answer).response
  /\ pc' = "done"
  /\ UNCHANGED <<inflight, config, call, ret, req, trace, processedData>>

\* the response is sent and nothing of the delivery is kept
Respond ==
  /\ pc = "done"
  /\ pc' = "idle"
  /\ req' = NoRequest
  /\ trace' = <<>>
  /\ processedData' = Pending
  /\ outbound' = <<>>
  /\ response' = Pending
  /\ UNCHANGED <<inflight, config, call, ret>>

Next ==
  \/ \E r \in Deliveries : Deliver(r)
  \/ \E answer \in Answers : ApiAnswers(answer)
  \/ Respond

Spec == Init /\ [][Next]_vars

\* The handler takes its own steps: once it has a response it sends it.
\* Nothing obliges the Bot API to answer, and axios.post is called with no
\* timeout, so ApiAnswers is left to the API.
SpecLive == Spec /\ WF_vars(Respond)

\* The same with a Bot API that settles every call it receives.
SpecAnswering == SpecLive /\ WF_vars(\E answer \in Answers : ApiAnswers(answer))

(***************************************************************************)
(* The endpoint with several deliveries in flight: the controller and the  *)
(* services are singletons, each call of handleGitHubWebhook has its own   *)
(* locals, and the calls interleave at the await on the Bot API.           *)
(***************************************************************************)

SignedAs(ty, event) ==
  LET body == JsonStringify(event)
  IN [body |-> body, signature |-> ExpectedSignature("s1", body), eventType |-> ty, now |-> "t1"]

ConcurrentDeliveries ==
  { SignedAs("star", StarEvent("created")),
    SignedAs("star", With(StarEvent("created"), "repository", Repository(RepoCase))),
    With(SignedAs("star", StarEvent("created")), "signature", [scheme |-> "sha256=", hex |-> DeadBeef]),
    SignedAs("push", PushEvent(RefTag, <<>>)),
    SignedAs("push", Without(PushEvent(RefMain, <<>>), "commits")) }

ConcurrentConfigs ==
  { configuration([named |-> n, others |-> o]) :
      n \in { [GITHUB_WEBHOOK_SECRET |-> "s1", TELEGRAM_BOT_TOKEN |-> "tok", TELEGRAM_CHAT_ID |-> "chatD"],
              [GITHUB_WEBHOOK_SECRET |-> "s1", TELEGRAM_CHAT_ID |-> "chatD"] },
      o \in { <<>>, << <<EnvKey(RepoOR), "chatA">> >> } }

InitConcurrent ==
  /\ config \in ConcurrentConfigs
  /\ call = [fn |-> "none"]
  /\ ret = Pending
  /\ ControllerIdle

\* a delivery arrives and its handleGitHubWebhook runs up to its await or its end
DeliverTo(s, r) ==
  /\ inflight[s].pc = "idle"
  /\ inflight' = [inflight EXCEPT ![s] = With(Handle(config, r), "req", r)]
  /\ UNCHANGED <<config, call, ret, pc, req, trace, processedData, outbound, response>>

\* the outbound call of the delivery in slot s settles and its handler runs to its end
ApiAnswersTo(s, answer) ==
  /\ inflight[s].pc = "awaiting"
  /\ LET end == Finish(inflight[s].req, inflight[s].outbound, answer)
     IN inflight' = [inflight EXCEPT ![s] =
                       With(With(With(@, "outbound", end.outbound), "response", end.response),
                            "pc", "done")]
  /\ UNCHANGED <<config, call, ret, pc, req, trace, processedData, outbound, response>>

\* the response of the delivery in slot s is sent and nothing of it is kept
RespondTo(s) ==
  /\ inflight[s].pc = "done"
  /\ inflight' = [inflight EXCEPT ![s] = IdleSlot]
  /\ UNCHANGED <<config, call, ret, pc, req, trace, processedData, outbound, response>>

NextConcurrent ==
  \/ \E s \in Slots, r \in ConcurrentDeliveries : DeliverTo(s, r)
  \/ \E s \in Slots, answer \in Answers : ApiAnswersTo(s, answer)
  \/ \E s \in Slots : RespondTo(s)

SpecConcurrent == InitConcurrent /\ [][NextConcurrent]_vars

(***************************************************************************)
(* Claims                                                                  *)
(***************************************************************************)

Verified == call.fn = "verifySignature" /\ ret.kind # "pending"

\* C1: verifySignature returns true exactly when the configured secret is
\* non-empty and the supplied signature is "sha256=" followed by the hex
\* HMAC-SHA256 of the body under that secret; in every other case, every
\* call with an empty secret included, it returns false.
C1_VerifyExact ==
  Verified =>
    /\ ret.kind = "returns"
    /\ ret.value =
         ( /\ config.github.webhookSecret # ""
           /\ Has(call, "signature")
           /\ call.signature.scheme = "sha256="
           /\ Has(call.signature, "hex")
           /\ ~Has(call.signature, "tail")
           /\ call.signature.hex = HmacSha256Hex(config.github.webhookSecret, call.payload) )

\* a correctly signed body is accepted
C1_Witness ==
  /\ Verified
  /\ ret.kind = "returns"
  /\ ret.value
  /\ config.github.webhookSecret = "s1"

SignatureMalformed(a) ==
  \/ a.signature.scheme # "sha256="
  \/ ~Has(a.signature, "hex")
  \/ Has(a.signature, "tail")
  \/ a.signature.hex.alg # "sha256"

\* C2: verifySignature never throws to its caller: with the secret
\* unconfigured, with the signature header absent or malformed, and with a
\* signature whose length differs from the expected one, it returns false.
C2_VerifyNeverThrows ==
  Verified =>
    /\ ret.kind # "throws"
    /\ ( \/ config.github.webhookSecret = ""
         \/ ~Has(call, "signature")
         \/ SignatureMalformed(call)
         \/ ByteLength(call.signature)
              # ByteLength(ExpectedSignature(config.github.webhookSecret, call.payload)) )
         => (ret.kind = "returns" /\ ~ret.value)

\* a call with no signature header and a configured secret has returned false
C2_Witness ==
  /\ Verified
  /\ config.github.webhookSecret # ""
  /\ ~Has(call, "signature")
  /\ ret.kind = "returns"
  /\ ~ret.value

Normalized == call.fn = "processWebhookEvent" /\ ret.kind # "pending"

CommitComplete(c) ==
  /\ Has(c, "message") /\ Has(c, "author") /\ Has(c.author, "name")
  /\ Has(c, "added") /\ Has(c, "removed") /\ Has(c, "modified")

\* a push payload that has every field processPushEvent reads
PushComplete(e) ==
  /\ Has(e, "ref") /\ Has(e, "commits") /\ Has(e, "compare")
  /\ Has(e, "repository") /\ Has(e.repository, "full_name")
  /\ Has(e, "pusher") /\ Has(e.pusher, "name")
  /\ \A i \in 1..Len(e.commits) : CommitComplete(e.commits[i])

\* C5: for every valid push payload e, processWebhookEvent(e, "push") is
\* null if and only if e.ref does not start with "refs/heads/".
C5_PushNullIffNotBranchRef ==
  (Normalized /\ call.eventType = "push" /\ PushComplete(call.event)) =>
    ((ret.kind = "null") <=> ~StartsWith(call.event.ref, RefsHeads))

\* a complete push of a tag, with commits, has been filtered
C5_Witness ==
  /\ Normalized
  /\ call.eventType = "push"
  /\ PushComplete(call.event)
  /\ call.event.ref = RefTag
  /\ call.event.commits # <<>>
  /\ ret.kind = "null"

\* a field the summary of this event type is built from is missing
RequiredFieldMissing(e, eventType) ==
  CASE eventType = "push" -> ~PushComplete(e)
    [] eventType = "star" ->
         \/ ~Has(e, "action") \/ ~Has(e, "repository") \/ ~Has(e, "sender")
         \/ ~Has(e.repository, "full_name") \/ ~Has(e.repository, "html_url")
         \/ ~Has(e.repository, "stargazers_count")
         \/ ~Has(e.sender, "login") \/ ~Has(e.sender, "html_url")
    [] eventType = "fork" ->
         \/ ~Has(e, "forkee") \/ ~Has(e, "repository") \/ ~Has(e, "sender")
         \/ ~Has(e.forkee, "full_name") \/ ~Has(e.forkee, "html_url")
         \/ ~Has(e.repository, "full_name") \/ ~Has(e.repository, "html_url")
         \/ ~Has(e.repository, "forks_count")
         \/ ~Has(e.sender, "login") \/ ~Has(e.sender, "html_url")
    [] eventType = "issues" ->
         \/ ~Has(e, "action") \/ ~Has(e, "issue") \/ ~Has(e, "repository") \/ ~Has(e, "sender")
         \/ ~Has(e.issue, "number") \/ ~Has(e.issue, "title") \/ ~Has(e.issue, "html_url")
         \/ ~Has(e.issue, "labels")
         \/ ~Has(e.repository, "full_name") \/ ~Has(e.repository, "html_url")
         \/ ~Has(e.sender, "login") \/ ~Has(e.sender, "html_url")
    [] eventType = "pull_request" ->
         \/ ~Has(e, "action") \/ ~Has(e, "pull_request") \/ ~Has(e, "repository") \/ ~Has(e, "sender")
         \/ ~Has(e.pull_request, "number") \/ ~Has(e.pull_request, "title")
         \/ ~Has(e.pull_request, "html_url") \/ ~Has(e.pull_request, "labels")
         \/ ~Has(e.pull_request, "base") \/ ~Has(e.pull_request, "head")
         \/ ~Has(e.pull_request.base, "ref") \/ ~Has(e.pull_request.head, "ref")
         \/ ~Has(e.pull_request, "draft") \/ ~Has(e.pull_request, "merged")
         \/ ~Has(e.repository, "full_name") \/ ~Has(e.repository, "html_url")
         \/ ~Has(e.sender, "login") \/ ~Has(e.sender, "html_url")
    [] OTHER -> FALSE

\* C6: for each of the five supported event types, processWebhookEvent
\* given a payload in which a required field is missing returns null: it
\* neither throws nor returns a summary with an unpopulated field.
C6_MissingFieldYieldsNull ==
  (Normalized /\ call.eventType \in SupportedEvents
     /\ RequiredFieldMissing(call.event, call.eventType)) =>
    ret.kind = "null"

\* The entries a payload's commits list, with their tags.
PayloadEntries(commits) ==
  UNION { {<<"+", commits[i].added[j]>> : j \in 1..Len(commits[i].added)}
            \cup {<<"-", commits[i].removed[j]>> : j \in 1..Len(commits[i].removed)}
            \cup {<<"~", commits[i].modified[j]>> : j \in 1..Len(commits[i].modified)}
          : i \in 1..Len(commits) }

NoDuplicates(q) == \A i, j \in 1..Len(q) : q[i] = q[j] => i = j

\* C8: for every push summary, changedFiles holds no two equal (tag, path)
\* entries and holds "+ p" for each added path p, "- p" for each removed
\* path and "~ p" for each modified path of every commit of the payload;
\* entries with the same path and different tags coexist.
C8_ChangedFilesUniqueSuperset ==
  (Normalized /\ ret.kind = "push") =>
    /\ NoDuplicates(ret.changedFiles)
    /\ \A entry \in PayloadEntries(call.event.commits) : InSeq(entry, ret.changedFiles)

\* a push whose commits repeat an entry and touch one path under two tags
C8_Witness ==
  /\ Normalized
  /\ ret.kind = "push"
  /\ Len(call.event.commits) = 2
  /\ call.event.commits[1].added = <<"a.ts", "a.ts">>
  /\ call.event.commits[2].modified = <<"a.ts">>
  /\ InSeq(<<"+", "a.ts">>, ret.changedFiles)
  /\ InSeq(<<"~", "a.ts">>, ret.changedFiles)
  /\ InSeq(<<"-", "a.ts">>, ret.changedFiles)

\* the index of the first commit whose author is name
FirstCommitBy(commits, name) ==
  Min({i \in 1..Len(commits) : commits[i].author.name = name})

\* C9: for every push summary, commitMessages is the payload's commit
\* messages in payload order, none dropped or altered, and authors is the
\* distinct commit author names, compared case-sensitively, in order of
\* first occurrence.
C9_MessagesAndAuthors ==
  (Normalized /\ ret.kind = "push") =>
    LET commits == call.event.commits
    IN /\ Len(ret.commitMessages) = Len(commits)
       /\ \A i \in 1..Len(commits) : ret.commitMessages[i] = commits[i].message
       /\ NoDuplicates(ret.authors)
       /\ {ret.authors[i] : i \in 1..Len(ret.authors)}
            = {commits[i].author.name : i \in 1..Len(commits)}
       /\ \A i, j \in 1..Len(ret.authors) :
            i < j => FirstCommitBy(commits, ret.authors[i]) < FirstCommitBy(commits, ret.authors[j])

\* three commits by Ann, ann and Ann again: the repeated author is listed
\* once, at its first place, and the other spelling is kept
C9_Witness ==
  /\ Normalized
  /\ ret.kind = "push"
  /\ Len(call.event.commits) = 3
  /\ call.event.commits[1].author.name = "Ann"
  /\ call.event.commits[2].author.name = "ann"
  /\ call.event.commits[3].author.name = "Ann"
  /\ call.event.commits[1].message # call.event.commits[3].message
  /\ ret.authors = <<"Ann", "ann">>
  /\ ret.commitMessages = <<call.event.commits[1].message,
                            call.event.commits[2].message,
                            call.event.commits[3].message>>

Handling == pc \in {"awaiting", "done"}

\* C3: for every delivery whose signature verification returns false,
\* whatever its event type, the endpoint rejects the request with an
\* authentication failure and performs none of normalization, formatting,
\* routing and the outbound send for it.
C3_RejectedBeforeProcessing ==
  (Handling /\ ~verifySignature(config, VerifyArguments(req)).value) =>
    /\ pc = "done"
    /\ response.status = 400
    /\ trace = <<"verifySignature">>
    /\ processedData.kind = "pending"
    /\ outbound = <<>>

\* a push delivery signed "sha256=deadbeef" has been rejected
C3_Witness ==
  /\ pc = "done"
  /\ Has(req, "eventType") /\ req.eventType = "push"
  /\ Has(req, "signature") /\ req.signature = [scheme |-> "sha256=", hex |-> DeadBeef]
  /\ isPushEvent(JsonParse(req.body))
  /\ config.github.webhookSecret = "s1"
  /\ response.status = 400

\* C4: the signature is verified over the exact bytes of the received body:
\* every delivery whose supplied signature is the correct HMAC of its raw
\* body is accepted, whatever the key order or whitespace of that body.
C4_RawBodySignatureAccepted ==
  ( /\ Handling
    /\ config.github.webhookSecret # ""
    /\ Has(req, "signature")
    /\ req.signature = ExpectedSignature(config.github.webhookSecret, req.body) )
  => ~(pc = "done" /\ response.status = 400)

\* C7: for every issues or pull_request payload whose action is outside
\* {opened, closed, reopened}, processWebhookEvent returns null, and no
\* notification is sent for it.
C7_OtherActionsFiltered ==
  /\ ( /\ Normalized
       /\ call.eventType \in {"issues", "pull_request"}
       /\ Has(call.event, "action")
       /\ call.event.action \notin {"opened", "closed", "reopened"} )
     => ret.kind = "null"
  /\ ( /\ Handling
       /\ InSeq("processWebhookEvent", trace)
       /\ Has(req, "eventType") /\ req.eventType \in {"issues", "pull_request"}
       /\ Has(JsonParse(req.body), "action")
       /\ JsonParse(req.body).action \notin {"opened", "closed", "reopened"} )
     => /\ processedData.kind = "null"
        /\ pc = "done"
        /\ outbound = <<>>
        /\ ~InSeq("sendMessage", trace)
        /\ response.status = 200

\* a correctly signed pull_request delivery with action "edited" has been answered
C7_Witness ==
  /\ pc = "done"
  /\ Has(req, "eventType") /\ req.eventType = "pull_request"
  /\ Has(JsonParse(req.body), "pull_request")
  /\ JsonParse(req.body).action = "edited"
  /\ InSeq("processWebhookEvent", trace)
  /\ processedData.kind = "null"
  /\ outbound = <<>>

\* the repository full name of the delivery being handled
DeliveredRepository == JsonParse(req.body).repository.full_name

\* the name the table is searched for: the full name, "unknown" for an
\* empty one
LookedUp == IF DeliveredRepository = <<>> THEN <<"u", "n", "k", "n", "o", "w", "n">> ELSE DeliveredRepository

\* C10 as stated: the chat a notification is routed to is the routing-table
\* value when the repository full name equals a routing-table key exactly,
\* and the default chat identifier otherwise.
C10_RoutedToTableValue ==
  (Handling /\ outbound # <<>>) =>
    outbound[1].payload.chat_id =
      IF DeliveredRepository \in DOMAIN config.repositories
        THEN config.repositories[DeliveredRepository]
        ELSE config.telegram.defaultChatId

\* C10 as amended: the chat a notification is routed to is the
\* routing-table value when the repository full name (or "unknown", for an
\* empty full name) equals a routing-table key exactly (case-sensitive) and
\* that value is not the empty string, and the default chat identifier
\* otherwise; a near-match (another case, a trailing slash, a prefix) never
\* selects an override.
C10_RoutedToNonEmptyTableValue ==
  (Handling /\ outbound # <<>>) =>
    outbound[1].payload.chat_id =
      IF /\ LookedUp \in DOMAIN config.repositories
         /\ config.repositories[LookedUp] # ""
        THEN config.repositories[LookedUp]
        ELSE config.telegram.defaultChatId

\* a notification for o/r went to the chat the table holds for o/r, which is
\* not the default chat
C10_Witness ==
  /\ Handling
  /\ outbound # <<>>
  /\ DeliveredRepository = RepoOR
  /\ RepoOR \in DOMAIN config.repositories
  /\ config.repositories[RepoOR] = "chatA"
  /\ config.telegram.defaultChatId = "chatD"
  /\ outbound[1].payload.chat_id = "chatA"

\* a notification for o/r went to the default chat although the table holds
\* overrides for O/r and for o
NearMatchRoutedToDefault ==
  /\ Handling
  /\ outbound # <<>>
  /\ DeliveredRepository = RepoOR
  /\ RepoCase \in DOMAIN config.repositories
  /\ RepoOwner \in DOMAIN config.repositories
  /\ outbound[1].payload.chat_id = "chatD"

\* <owner>_<repo> for the full name <owner>/<repo>
OwnerUnderscoreRepo(name) == Replace(name, <<"/">>, <<"_">>)

\* C11: when the environment defines REPO_<owner>_<repo>_CHAT_ID=<id>, every
\* notification for an event of the repository whose full name is
\* <owner>/<repo> is sent to chat <id> rather than to the default chat.
C11_EnvKeyRoutesRepository ==
  (Handling /\ outbound # <<>>) =>
    \A env \in Envs :
      \A i \in 1..Len(env.others) :
        ( /\ config = configuration(env)
          /\ env.others[i][1] = EnvKey(OwnerUnderscoreRepo(DeliveredRepository))
          /\ env.others[i][2] # "" )
        => outbound[1].payload.chat_id = env.others[i][2]

\* C12: when the outbound call to the messaging API fails (a network error,
\* or a response whose ok flag is not true), sendMessage returns false
\* without raising, and the endpoint answers the delivery with HTTP 200 and
\* success = false, not with a thrown error.
C12_SendFailureIsSuccessFalse ==
  (pc = "done" /\ outbound # <<>> /\ outbound[1].answer # "ok") =>
    /\ outbound[1].returned = Returns(FALSE)
    /\ response.status = 200
    /\ response.success = FALSE
    /\ response.message = <<Atom(req.eventType), Lit(" event processed but notification failed")>>

\* the outbound call of a delivery was rejected with a network error and the
\* delivery has been answered
C12_Witness ==
  /\ pc = "done"
  /\ outbound # <<>>
  /\ outbound[1].answer = "network error"
  /\ response.status = 200
  /\ ~response.success

\* how many times x occurs in the sequence q
Count(x, q) == Cardinality({i \in 1..Len(q) : q[i] = x})

\* the delivery being handled passed verification and was normalized to a summary
Summarized == Handling /\ processedData.kind \notin {"pending", "null", "throws"}

\* at most one call reaches the messaging API for a delivery, whatever it answers
AtMostOneOutboundCall ==
  /\ Len(outbound) <= 1
  /\ Count("axios.post", trace) <= 1
  /\ Count("sendMessage", trace) <= 1

\* C13: each delivery causes at most one outbound call to the messaging API,
\* with no retry after a failed call, and every delivery that is verified
\* and normalized to a non-null summary issues exactly one sendMessage call
\* when bot token and chat id are configured.
C13_ExactlyOneSend ==
  /\ AtMostOneOutboundCall
  /\ ( /\ Summarized
       /\ config.telegram.botToken # ""
       /\ config.telegram.defaultChatId # "" )
     => /\ Count("sendMessage", trace) = 1
        /\ Len(outbound) = 1

\* the delivery being handled passed signature verification
Accepted == Handling /\ verifySignature(config, VerifyArguments(req)).value

\* C14: for every delivery that passes signature verification and whose
\* event type is not one of push, star, fork, issues, pull_request, or whose
\* payload normalizes to null, the endpoint responds with success = true and
\* an explanatory message ("Event processed (filtered out)" for a filtered
\* event), and no message is sent to the messaging API.
C14_FilteredIsSuccessWithoutSend ==
  /\ ( /\ Accepted
       /\ ~(Has(req, "eventType")
            /\ req.eventType \in {"push", "star", "fork", "issues", "pull_request"}) )
     => /\ pc = "done"
        /\ response = Ok(TRUE, <<Lit("Event "), AtomOf(req, "eventType"), Lit(" is not supported")>>, req)
        /\ trace = <<"verifySignature">>
        /\ outbound = <<>>
  /\ (Accepted /\ processedData.kind = "null")
     => /\ pc = "done"
        /\ response.status = 200
        /\ response.success = TRUE
        /\ response.message = <<Lit("Event processed (filtered out)")>>
        /\ trace = <<"verifySignature", "processWebhookEvent">>
        /\ outbound = <<>>

\* a correctly signed push of a tag has been answered as filtered out
C14_Witness ==
  /\ Accepted
  /\ pc = "done"
  /\ Has(req, "eventType") /\ req.eventType = "push"
  /\ Has(JsonParse(req.body), "ref") /\ JsonParse(req.body).ref = RefTag
  /\ processedData.kind = "null"
  /\ response.success = TRUE
  /\ response.message = <<Lit("Event processed (filtered out)")>>

\* a correctly signed ping has been answered as not supported
UnsupportedAnswered ==
  /\ Accepted
  /\ pc = "done"
  /\ Has(req, "eventType") /\ req.eventType = "ping"
  /\ response.success = TRUE

\* C15: authentication failure is the only outcome of a webhook request that
\* is an HTTP error response: every request that passes signature
\* verification, one with a malformed payload for a supported event type
\* included, is answered with HTTP 200 and a {success, message} body.
C15_OnlyAuthFailureIsHttpError ==
  (pc = "done" /\ Accepted) =>
    /\ response.status = 200
    /\ Has(response, "success")
    /\ Has(response, "message")

\* a TelegramService method has run up to its return or its outbound call
TelegramApplied ==
  /\ call.fn \in {"sendMessage", "sendWebhookNotification", "testConnection"}
  /\ ret.kind # "pending"

\* the chat a call of sendMessage or sendWebhookNotification names, "" for none
NamedChat ==
  CASE call.fn = "sendMessage" ->
         IF Has(call.options, "chatId") THEN call.options.chatId ELSE ""
    [] call.fn = "sendWebhookNotification" ->
         IF call.repositoryName \in DOMAIN config.repositories
           THEN config.repositories[call.repositoryName]
           ELSE ""
    [] OTHER -> ""

\* C16: when the bot credential is not configured, sendMessage and
\* testConnection return false without performing any outbound call; when
\* neither a repository override nor the default chat identifier is
\* configured, sendMessage likewise returns false without an outbound call.
C16_UnconfiguredSendsNothing ==
  /\ (TelegramApplied /\ config.telegram.botToken = "")
     => (ret = Returns(FALSE) /\ outbound = <<>>)
  /\ ( /\ TelegramApplied
       /\ call.fn \in {"sendMessage", "sendWebhookNotification"}
       /\ NamedChat = ""
       /\ config.telegram.defaultChatId = "" )
     => (ret = Returns(FALSE) /\ outbound = <<>>)

\* sendWebhookNotification has returned false with the bot token set, no
\* default chat and no override for the repository
C16_Witness ==
  /\ TelegramApplied
  /\ call.fn = "sendWebhookNotification"
  /\ config.telegram.botToken # ""
  /\ config.telegram.defaultChatId = ""
  /\ NamedChat = ""
  /\ config.repositories # <<>>
  /\ ret = Returns(FALSE)
  /\ outbound = <<>>

\* testConnection has returned false with no bot token
TestConnectionWithoutToken ==
  /\ TelegramApplied
  /\ call.fn = "testConnection"
  /\ config.telegram.botToken = ""
  /\ ret = Returns(FALSE)

Formatted == call.fn = "format" /\ ret.kind = "formatted"

PushFormatted ==
  /\ Formatted
  /\ call.eventType = "push"
  /\ ret.results[1].message.kind = "returns"

PushText == ret.results[1].message.text

\* the part of a commit message before its first line break
FirstLine(msg) ==
  LET breaks == {i \in 1..Len(msg) : msg[i] = "\n"}
  IN IF breaks = {} THEN msg ELSE SubSeq(msg, 1, Min(breaks) - 1)

\* the first line of a commit message, cut to 77 characters and an ellipsis
\* when it is longer than 80
ShownLine(msg) ==
  IF Len(FirstLine(msg)) > 80
    THEN SubSeq(FirstLine(msg), 1, 77) \o <<".", ".", ".">>
    ELSE FirstLine(msg)

\* the part of an owner/repo name after its "/" ("#" put before it), the
\* whole name when it has no "/"
RepositoryPart(name) ==
  LET slashes == {i \in 1..Len(name) : name[i] = "/"}
  IN IF slashes = {}
       THEN name
       ELSE LET rest == SubSeq(name, Min(slashes) + 1, Len(name))
                more == {i \in 1..Len(rest) : rest[i] = "/"}
            IN IF more = {} THEN rest ELSE SubSeq(rest, 1, Min(more) - 1)

Ascending(S) ==
  [k \in 1..Cardinality(S) |-> CHOOSE p \in S : Cardinality({q \in S : q < p}) = k - 1]

\* the part of a push text before its list of changed files
CommitSection(text) ==
  LET files == {i \in 1..Len(text) : text[i] = Lit(":tools: <b>Changed ")}
  IN IF files = {} THEN text ELSE SubSeq(text, 1, Min(files) - 1)

\* the commit lines a push text shows, top to bottom
ShownLines(text) ==
  LET section == CommitSection(text)
      at == Ascending({i \in 2..Len(section) :
                         section[i - 1] = Lit("|- ") /\ section[i].t = "str"})
  IN [k \in 1..Len(at) |-> section[at[k]].v]

\* the numbers N of the "...and N more" lines of the commit list
MoreCommits(text) ==
  LET section == CommitSection(text)
  IN {section[i + 1].n : i \in {j \in 1..(Len(section) - 1) : section[j] = Lit("|- ...and ")}}

\* C20 as stated: in the push message at most 5 commit lines are shown, in
\* payload order; each shown line is the first line of its commit message,
\* is at most 80 characters long and ends with an ellipsis exactly when that
\* first line is longer than 80 characters; a "...and N more" line appears
\* exactly when there are more than 5 commits, with N = number of commits - 5.
C20_CommitLinesAsStated ==
  PushFormatted =>
    LET msgs == call.data.commitMessages
        lines == ShownLines(PushText)
    IN /\ Len(lines) = (IF Len(msgs) < 5 THEN Len(msgs) ELSE 5)
       /\ \A k \in 1..Len(lines) :
            /\ Len(lines[k]) <= 80
            /\ EndsWith(lines[k], <<".", ".", ".">>) <=> (Len(FirstLine(msgs[k])) > 80)
            /\ \/ lines[k] = FirstLine(msgs[k])
               \/ /\ EndsWith(lines[k], <<".", ".", ".">>)
                  /\ StartsWith(FirstLine(msgs[k]), SubSeq(lines[k], 1, Len(lines[k]) - 3))
       /\ MoreCommits(PushText) = (IF Len(msgs) > 5 THEN {Len(msgs) - 5} ELSE {})

\* C20 as amended: in the push message at most 5 commit lines are shown, in
\* payload order; each shown line is the first line of its commit message
\* when that line is at most 80 characters long, and otherwise its first 77
\* characters followed by "...", 80 characters in all; a "...and N more"
\* line appears exactly when there are more than 5 commits, with N = number
\* of commits - 5.
C20_CommitLines ==
  PushFormatted =>
    LET msgs == call.data.commitMessages
        lines == ShownLines(PushText)
    IN /\ Len(lines) = (IF Len(msgs) < 5 THEN Len(msgs) ELSE 5)
       /\ \A k \in 1..Len(lines) :
            /\ Len(lines[k]) <= 80
            /\ lines[k] = ShownLine(msgs[k])
            /\ Len(FirstLine(msgs[k])) > 80 => EndsWith(lines[k], <<".", ".", ".">>)
       /\ MoreCommits(PushText) = (IF Len(msgs) > 5 THEN {Len(msgs) - 5} ELSE {})

\* a push of seven commits has been formatted: five lines are shown, the
\* third of them cut, the fourth being the first line of a longer message,
\* and a line tells of 2 more
C20_Witness ==
  /\ PushFormatted
  /\ call.data.commitMessages = MessagesFrom(1, 7)
  /\ Len(ShownLines(PushText)) = 5
  /\ ShownLines(PushText)[2] = Message(2)
  /\ Len(ShownLines(PushText)[3]) = 80
  /\ EndsWith(ShownLines(PushText)[3], <<".", ".", ".">>)
  /\ ShownLines(PushText)[5] = <<"5">>
  /\ MoreCommits(PushText) = {2}

\* the delivery in slot s is as it would be had it been handled alone
AsAlone(s) ==
  LET mine == inflight[s]
      alone == Handle(config, mine.req)
  IN IF mine.pc = "awaiting" \/ alone.pc = "done"
       THEN mine = With(alone, "req", mine.req)
       ELSE /\ mine.pc = "done"
            /\ alone.pc = "awaiting"
            /\ mine.trace = alone.trace
            /\ mine.processedData = alone.processedData
            /\ Len(mine.outbound) = 1
            /\ Without(Without(mine.outbound[1], "answer"), "returned") = alone.outbound[1]
            /\ mine.response = Finish(mine.req, alone.outbound, mine.outbound[1].answer).response

\* the delivery in slot t can take its next step
CanStep(t) ==
  CASE inflight[t].pc = "idle" -> \A r \in ConcurrentDeliveries : ENABLED DeliverTo(t, r)
    [] inflight[t].pc = "awaiting" -> \A answer \in Answers : ENABLED ApiAnswersTo(t, answer)
    [] OTHER -> ENABLED RespondTo(t)

FileSection(text) ==
  LET files == {i \in 1..Len(text) : text[i] = Lit(":tools: <b>Changed ")}
  IN IF files = {} THEN <<>> ELSE SubSeq(text, Min(files), Len(text))

\* the changed-file entries a push text shows, top to bottom
ShownEntries(text) ==
  LET section == FileSection(text)
      at == Ascending({i \in 1..Len(section) : section[i].t = "file"})
  IN [k \in 1..Len(at) |-> section[at[k]]]

\* the numbers N of the "...and N more" lines of the changed-files list
MoreFiles(text) ==
  LET section == FileSection(text)
  IN {section[i + 1].n : i \in {j \in 1..(Len(section) - 1) : section[j] = Lit("|- ...and ")}}

\* the count the "Changed <count>" header states
StatedCount(text) == FileSection(text)[2].n

AfterLastSlash(name) ==
  LET slashes == {i \in 1..Len(name) : name[i] = "/"}
  IN IF slashes = {}
       THEN name
       ELSE SubSeq(name, (CHOOSE i \in slashes : \A j \in slashes : j <= i) + 1, Len(name))

\* C22: the repository tag used in every formatted message is "#" followed
\* by the text after the last "/" of the repository full name, for every
\* full name including those with no "/" or more than one "/".
C22_RepoTagAfterLastSlash ==
  (/\ Formatted
   /\ ret.results[1].message.kind = "returns"
   /\ call.eventType \in SupportedEvents
   /\ Has(call.data, "repositoryName"))
    => InSeq(Str(<<"#">> \o AfterLastSlash(call.data.repositoryName)),
             ret.results[1].message.text)

\* a pull request summary has been formatted into a text
PullRequestFormatted ==
  /\ Formatted
  /\ call.eventType = "pull_request"
  /\ call.data.kind = "pull_request"
  /\ ret.results[1].message.kind = "returns"

\* the action verb of a pull request text, after the user's login
PullRequestVerb == ret.results[1].message.text[5].s

\* C23: in the pull-request message the action verb is "merged" exactly
\* when the action is closed and the merged flag is true; a closed pull
\* request that is not merged gets the verb "closed", and opened/reopened
\* map to themselves whatever the merged flag.
C23_MergedVerb ==
  PullRequestFormatted =>
    LET merged == Has(call.data, "isMerged") /\ call.data.isMerged
    IN /\ ret.results[1].message.text[6] = Lit(" pull request <b>#")
       /\ (PullRequestVerb = "merged") <=> (call.data.action = "closed" /\ merged)
       /\ (call.data.action = "closed" /\ ~merged) => PullRequestVerb = "closed"
       /\ call.data.action \in {"opened", "reopened"} => PullRequestVerb = call.data.action

\* a closed and merged pull request has been formatted with the verb
\* "merged"
C23_Witness ==
  /\ PullRequestFormatted
  /\ call.data.action = "closed"
  /\ Has(call.data, "isMerged")
  /\ call.data.isMerged
  /\ PullRequestVerb = "merged"

\* an opened pull request whose merged flag is true keeps the verb "opened"
OpenedMergedKeepsVerb ==
  /\ PullRequestFormatted
  /\ call.data.action = "opened"
  /\ Has(call.data, "isMerged")
  /\ call.data.isMerged
  /\ PullRequestVerb = "opened"

\* the issue or the pull request of a payload
Item(event, eventType) == IF eventType = "issues" THEN event.issue ELSE event.pull_request

\* an issue or pull request payload with a body has been summarized
BodySummarized ==
  /\ call.fn = "pipeline"
  /\ call.eventType \in {"issues", "pull_request"}
  /\ ret.kind \in {"summarized", "messaged"}
  /\ ret.data.kind = call.eventType
  /\ Has(Item(call.event, call.eventType), "body")

PayloadBody == Item(call.event, call.eventType).body

\* the first n characters of s
FirstChars(s, n) == [i \in 1..(IF Len(s) < n THEN Len(s) ELSE n) |-> s[i]]

\* the body previews a text holds
Previews(text) ==
  {text[i + 1].v : i \in {j \in 1..(Len(text) - 1) : text[j] = Lit("\n:speech: <i>")}}

\* C24 as stated: for every issue or pull-request payload with a body, the
\* summary body is the first 200 characters of the payload body with no
\* ellipsis appended, and the body preview in the formatted message is at
\* most 150 characters long, ending with an ellipsis exactly when the
\* summary body is longer than 150 characters.
C24_BodyCutsAsStated ==
  BodySummarized =>
    /\ ret.data.body = FirstChars(PayloadBody, 200)
    /\ (ret.kind = "messaged" /\ ret.message.kind = "returns") =>
         \A preview \in Previews(ret.message.text) :
           /\ Len(preview) <= 150
           /\ EndsWith(preview, <<".", ".", ".">>) <=> (Len(ret.data.body) > 150)

\* C24 as amended: for every issue or pull-request payload with a body, the
\* summary body is the first 200 characters of the payload body with no
\* ellipsis appended; the formatted message holds a body preview exactly
\* when the summary body has a character that is not white space, and the
\* preview is the summary body when that is at most 150 characters long,
\* and otherwise its first 147 characters followed by "...", 150 characters
\* in all.
C24_BodyCuts ==
  BodySummarized =>
    /\ ret.data.body = FirstChars(PayloadBody, 200)
    /\ (ret.kind = "messaged" /\ ret.message.kind = "returns") =>
         LET previews == Previews(ret.message.text)
             body == ret.data.body
         IN /\ (previews # {}) <=> (\E i \in 1..Len(body) : body[i] \notin {" ", "\n", "\t"})
            /\ \A preview \in previews :
                 /\ Len(preview) <= 150
                 /\ preview = (IF Len(body) > 150
                                 THEN FirstChars(body, 147) \o <<".", ".", ".">>
                                 ELSE body)
                 /\ Len(body) > 150 => EndsWith(preview, <<".", ".", ".">>)

\* a pull request whose body is 250 characters long has been summarized and
\* formatted: the summary holds 200 characters, the preview 147 and "..."
C24_Witness ==
  /\ BodySummarized
  /\ call.eventType = "pull_request"
  /\ Len(PayloadBody) = MaxBody
  /\ Len(ret.data.body) = 200
  /\ ret.data.body[200] = "c"
  /\ ret.kind = "messaged"
  /\ \E preview \in Previews(ret.message.text) :
       /\ Len(preview) = 150
       /\ preview[147] = "a"
       /\ EndsWith(preview, <<".", ".", ".">>)

\* a key that starts with "REPO_" and ends with "_CHAT_ID", the two apart
RepoKeyShape(key) ==
  /\ StartsWith(key, <<"R", "E", "P", "O", "_">>)
  /\ EndsWith(key, <<"_", "C", "H", "A", "T", "_", "I", "D">>)
  /\ Len(key) >= 13

\* everything between the leading "REPO_" and the trailing "_CHAT_ID"
Between(key) == SubSeq(key, 6, Len(key) - 8)

\* C25: for every environment key that starts with "REPO_" and ends with
\* "_CHAT_ID", the routing-table key derived from it is everything between
\* the first "REPO_" and the trailing "_CHAT_ID", also when the middle
\* segment itself contains "REPO_" or "_CHAT_ID"; keys not of that shape
\* add no routing entry.
C25_KeyBetweenPrefixAndSuffix ==
  (call.fn = "configuration" /\ ret.kind = "configured") =>
    LET others == call.env.others
        shaped == {n \in 1..Len(others) : RepoKeyShape(others[n][1])}
    IN /\ DOMAIN config.repositories = {Between(others[n][1]) : n \in shaped}
       /\ \A n \in shaped : config.repositories[Between(others[n][1])] = others[n][2]

\* C26: every delivery eventually receives a response: the outbound call to
\* the messaging API is bounded by a timeout, and when the API never
\* answers the call ends as an ordinary delivery failure (sendMessage
\* returns false, response success=false) instead of holding the delivery
\* forever.
C26_EveryDeliveryAnswered == (pc = "awaiting") ~> (pc = "done")

\* a delivery that waits on its outbound call is answered once the call
\* settles
AnsweredOnceSettled == (pc = "awaiting") ~> (pc = "idle")

\* a star payload has been normalized
StarSummarized ==
  /\ call.fn = "pipeline"
  /\ call.eventType = "star"
  /\ ret.kind \in {"summarized", "messaged"}

\* the verb of a star text, after the user's login
StarVerb == ret.message.text[5]

\* C27 as stated: processWebhookEvent(e, "star") returns null unless action,
\* repository and sender are all present in e; when they are, it returns a
\* summary that carries the payload's action unchanged, with no filtering
\* on the action's value, and the formatted message uses the verb "starred"
\* for created and "unstarred" for deleted.
C27_StarAsStated ==
  StarSummarized =>
    LET e == call.event
        present == Has(e, "action") /\ Has(e, "repository") /\ Has(e, "sender")
    IN /\ ~present => ret.data.kind = "null"
       /\ present => (ret.data.kind = "star" /\ ret.data.action = e.action)
       /\ (ret.kind = "messaged" /\ ret.message.kind = "returns") =>
            /\ ret.data.action = "created" => StarVerb = Lit("starred")
            /\ ret.data.action = "deleted" => StarVerb = Lit("unstarred")

\* C27 as amended: processWebhookEvent(e, "star") returns null unless
\* repository and sender are present in e and action is present and not
\* the empty string; when they are, it returns a summary that carries the
\* payload's action unchanged, with no further filtering on the action's
\* value, and the formatted message uses the verb "starred" for created and
\* "unstarred" for deleted (and for every other action).
C27_Star ==
  StarSummarized =>
    LET e == call.event
        present == /\ Has(e, "action") /\ e.action # ""
                   /\ Has(e, "repository") /\ Has(e, "sender")
    IN /\ ~present => ret.data.kind = "null"
       /\ present => (ret.data.kind = "star" /\ ret.data.action = e.action)
       /\ (ret.kind = "messaged" /\ ret.message.kind = "returns") =>
            /\ ret.data.action = "created" => StarVerb = Lit("starred")
            /\ ret.data.action # "created" => StarVerb = Lit("unstarred")

\* a star payload whose action is deleted has been normalized and
\* formatted with the verb "unstarred"
C27_Witness ==
  /\ StarSummarized
  /\ Has(call.event, "action")
  /\ call.event.action = "deleted"
  /\ ret.kind = "messaged"
  /\ ret.data.action = "deleted"
  /\ StarVerb = Lit("unstarred")

\* a star payload whose action is neither created nor deleted has been
\* normalized into a summary and formatted
OtherStarActionPassed ==
  /\ StarSummarized
  /\ ret.kind = "messaged"
  /\ ret.data.action = "edited"

\* the repository name the controller takes from the summary of the
\* delivery being handled: data.repositoryName, "unknown" for an empty one
SummaryRepository == getRepositoryName(processedData)

\* C28: every outbound sendMessage call made for a webhook notification
\* targets a non-empty chat identifier that is either the routing-table
\* value stored under the summary's repository name or the configured
\* default chat identifier; an override whose value is the empty string is
\* treated as absent and the default is used.  The summary's repository
\* name is the one the controller's getRepositoryName returns.
C28_ChatIsOverrideOrDefault ==
  (Handling /\ outbound # <<>>) =>
    LET chat == outbound[1].payload.chat_id
        overridden == SummaryRepository \in DOMAIN config.repositories
    IN /\ Len(outbound) = 1
       /\ Has(processedData, "repositoryName")
       /\ chat # ""
       /\ \/ chat = config.telegram.defaultChatId
          \/ overridden /\ chat = config.repositories[SummaryRepository]
       /\ (overridden /\ config.repositories[SummaryRepository] = "")
            => chat = config.telegram.defaultChatId

\* a notification for o/r went to the default chat, the table holding the
\* empty string for o/r
C28_Witness ==
  /\ Handling
  /\ outbound # <<>>
  /\ SummaryRepository = RepoOR
  /\ RepoOR \in DOMAIN config.repositories
  /\ config.repositories[RepoOR] = ""
  /\ outbound[1].payload.chat_id = "chatD"

\* a notification for a repository with an empty full name went to the chat
\* the table holds for "unknown"
UnknownRouted ==
  /\ Handling
  /\ outbound # <<>>
  /\ DeliveredRepository = <<>>
  /\ outbound[1].payload.chat_id = "chatU"

\* the delivery being handled has been answered with success=true and the
\* message "<eventType> event processed and notification sent"
AnsweredSent ==
  /\ pc = "done"
  /\ response.status = 200
  /\ response.success
  /\ Len(response.message) = 2
  /\ response.message[2] = Lit(" event processed and notification sent")

\* C29: the endpoint answers a delivery with success=true and the message
\* "<eventType> event processed and notification sent" only if, for that
\* same delivery, one outbound call to the messaging API was made and was
\* answered with ok=true.
C29_SentOnlyIfApiOk ==
  AnsweredSent =>
    /\ response.message[1] = Atom(req.eventType)
    /\ Len(outbound) = 1
    /\ outbound[1].kind = "post"
    /\ outbound[1].answer = "ok"

\* a pull request delivery has been answered "pull_request event processed
\* and notification sent" after the API answered its one call with ok=true
C29_Witness ==
  /\ AnsweredSent
  /\ req.eventType = "pull_request"
  /\ Len(outbound) = 1
  /\ outbound[1].answer = "ok"

\* a delivery whose call the API answered with ok=false has been answered
\* with success=false
AnsweredNotSent ==
  /\ pc = "done"
  /\ outbound # <<>>
  /\ outbound[1].answer = "not ok"
  /\ response.status = 200
  /\ ~response.success

\* a push payload has been normalized into a summary
PushSummarized ==
  /\ Normalized
  /\ call.eventType = "push"
  /\ ret.kind = "push"

\* C30: for every push summary, "refs/heads/" concatenated with branchName
\* equals the payload's ref: only the leading prefix is stripped, also when
\* the branch name itself contains "refs/heads/" or "/", and a ref equal to
\* "refs/heads/" yields a summary with an empty branch name rather than
\* null.
C30_BranchNameIsRefSuffix ==
  /\ PushSummarized =>
       <<"r", "e", "f", "s", "/", "h", "e", "a", "d", "s", "/">> \o ret.branchName = call.event.ref
  /\ (/\ Normalized
      /\ call.eventType = "push"
      /\ PushComplete(call.event)
      /\ call.event.ref = <<"r", "e", "f", "s", "/", "h", "e", "a", "d", "s", "/">>)
       => (ret.kind = "push" /\ ret.branchName = <<>>)

\* the push of refs/heads/x/refs/heads/y has been normalized: its branch
\* name is x/refs/heads/y
C30_Witness ==
  /\ PushSummarized
  /\ call.event.ref = RefNested
  /\ ret.branchName = <<"x", "/", "r", "e", "f", "s", "/", "h", "e", "a", "d", "s", "/", "y">>

\* the push of refs/heads/ has been normalized into a summary whose branch
\* name is empty
EmptyBranchSummarized ==
  /\ PushSummarized
  /\ call.event.ref = RefsHeads
  /\ ret.branchName = <<>>

====
